---- MODULE Spec2Model ----
(***************************************************************************)
(* The API gateway of pkg/server/server.go: the request-id middleware, the *)
(* backend client, the two listing handlers (filtering and pagination),    *)
(* the composite news+comments flow and the comment write flow.            *)
(*                                                                         *)
(* Strings are sequences of one-character strings.  A Go int is a 64-bit   *)
(* two's complement word, held as IntBytes little-endian bytes, so that    *)
(* the handlers' arithmetic wraps exactly as the compiled code does.       *)
(***************************************************************************)
EXTENDS Integers, Sequences, FiniteSets, TLC

(***************************************************************************)
(* Machine integers (Go int / int64 on a 64-bit build).                    *)
(***************************************************************************)
IntBytes == 8

Word == [1..IntBytes -> 0..255]

\* The word holding n, for 0 <= n < 2^31.
FromNat(n) == [i \in 1..IntBytes |-> IF i <= 4 THEN (n \div (256 ^ (i - 1))) % 256 ELSE 0]

Zero == FromNat(0)
One == FromNat(1)
AllOnes == [i \in 1..IntBytes |-> 255]

RECURSIVE AddLimbs(_, _, _, _)
AddLimbs(a, b, i, carry) ==
    IF i > IntBytes THEN <<>>
    ELSE LET s == a[i] + b[i] + carry
         IN  <<s % 256>> \o AddLimbs(a, b, i + 1, s \div 256)

\* a + b, wrapping modulo 2^64.
WrapAdd(a, b) == AddLimbs(a, b, 1, 0)

Not(a) == [i \in 1..IntBytes |-> 255 - a[i]]
Neg(a) == WrapAdd(Not(a), One)

\* a - b, wrapping modulo 2^64.
WrapSub(a, b) == WrapAdd(a, Neg(b))

RECURSIVE Col(_, _, _, _)
Col(a, b, k, i) == IF i > k THEN 0 ELSE a[i] * b[k + 1 - i] + Col(a, b, k, i + 1)

RECURSIVE MulLimbs(_, _, _, _)
MulLimbs(a, b, k, carry) ==
    IF k > IntBytes THEN <<>>
    ELSE LET s == Col(a, b, k, 1) + carry
         IN  <<s % 256>> \o MulLimbs(a, b, k + 1, s \div 256)

\* a * b, wrapping modulo 2^64.
WrapMul(a, b) == MulLimbs(a, b, 1, 0)

IsNeg(a) == a[IntBytes] >= 128

RECURSIVE ULessFrom(_, _, _)
ULessFrom(a, b, i) ==
    IF i = 0 THEN FALSE
    ELSE IF a[i] # b[i] THEN a[i] < b[i]
    ELSE ULessFrom(a, b, i - 1)

\* a < b as unsigned words.
ULess(a, b) == ULessFrom(a, b, IntBytes)

\* a < b as signed integers.
Less(a, b) == IF IsNeg(a) # IsNeg(b) THEN IsNeg(a) ELSE ULess(a, b)
Leq(a, b) == a = b \/ Less(a, b)

Bit(a, i) == (a[(i \div 8) + 1] \div (2 ^ (i % 8))) % 2

RECURSIVE TopBitFrom(_, _)
TopBitFrom(a, i) == IF i < 0 \/ Bit(a, i) = 1 THEN i ELSE TopBitFrom(a, i - 1)

\* Schoolbook long division of unsigned words, one bit at a time from the top
\* set bit of the dividend: st.q is the quotient so far, st.r the remainder.
RECURSIVE UDivStep(_, _, _, _)
UDivStep(a, c, i, st) ==
    IF i < 0 THEN st.q
    ELSE LET r2 == AddLimbs(st.r, st.r, 1, Bit(a, i))
         IN  IF ULess(r2, c)
             THEN UDivStep(a, c, i - 1, [q |-> AddLimbs(st.q, st.q, 1, 0), r |-> r2])
             ELSE UDivStep(a, c, i - 1, [q |-> AddLimbs(st.q, st.q, 1, 1),
                                         r |-> WrapSub(r2, c)])

UDiv(a, c) == UDivStep(a, c, TopBitFrom(a, 8 * IntBytes - 1), [q |-> Zero, r |-> Zero])

Abs(a) == IF IsNeg(a) THEN Neg(a) ELSE a

\* Go's integer division: the quotient truncated toward zero (c # 0).
Quo(a, c) ==
    LET q == UDiv(Abs(a), Abs(c))
    IN  IF IsNeg(a) # IsNeg(c) THEN Neg(q) ELSE q

MaxInt == [i \in 1..IntBytes |-> IF i = IntBytes THEN 127 ELSE 255]
MinInt == [i \in 1..IntBytes |-> IF i = IntBytes THEN 128 ELSE 0]

\* The value of a word known to lie in 0 .. 2^31 - 1.
ToNat(a) == a[1] + 256 * a[2] + 65536 * a[3] + 16777216 * a[4]
IsSmall(a) == /\ \A i \in 5..IntBytes : a[i] = 0
              /\ a[4] < 128

(***************************************************************************)
(* Strings.                                                                *)
(***************************************************************************)
Digits == <<"0", "1", "2", "3", "4", "5", "6", "7", "8", "9">>
IsDigit(c) == \E d \in 1..10 : Digits[d] = c
DigitVal(c) == (CHOOSE d \in 1..10 : Digits[d] = c) - 1

Upper == <<"A", "B", "C", "D", "E", "F", "G", "H", "I", "J", "K", "L", "M",
           "N", "O", "P", "Q", "R", "S", "T", "U", "V", "W", "X", "Y", "Z">>
Lower == <<"a", "b", "c", "d", "e", "f", "g", "h", "i", "j", "k", "l", "m",
           "n", "o", "p", "q", "r", "s", "t", "u", "v", "w", "x", "y", "z">>

LowerChar(c) ==
    IF \E k \in 1..26 : Upper[k] = c
    THEN Lower[CHOOSE k \in 1..26 : Upper[k] = c]
    ELSE c

\* strings.ToLower
ToLower(s) == [i \in 1..Len(s) |-> LowerChar(s[i])]

RECURSIVE HasPrefixAt(_, _, _, _)
HasPrefixAt(s, sub, at, j) ==
    IF j > Len(sub) THEN TRUE
    ELSE IF at + j - 1 > Len(s) THEN FALSE
    ELSE IF s[at + j - 1] # sub[j] THEN FALSE
    ELSE HasPrefixAt(s, sub, at, j + 1)

RECURSIVE IndexFrom(_, _, _)
IndexFrom(s, sub, at) ==
    IF at + Len(sub) - 1 > Len(s) THEN -1
    ELSE IF HasPrefixAt(s, sub, at, 1) THEN at - 1
    ELSE IndexFrom(s, sub, at + 1)

\* strings.Contains
Contains(s, sub) == IndexFrom(s, sub, 1) >= 0

(***************************************************************************)
(* strconv.Atoi / strconv.ParseInt(s, 10, 64).                             *)
(***************************************************************************)
\* ParseUint's cutoff: the smallest n with n * 10 > 2^64 - 1.
Cutoff == WrapAdd(UDiv(AllOnes, FromNat(10)), One)

\* The magnitude of a digit string: [ok, v], ok FALSE on overflow of 64 bits.
RECURSIVE ParseDigits(_, _, _)
ParseDigits(s, i, n) ==
    IF i > Len(s) THEN [ok |-> TRUE, v |-> n]
    ELSE IF ~ULess(n, Cutoff) THEN [ok |-> FALSE, v |-> AllOnes]
    ELSE LET n10 == WrapMul(n, FromNat(10))
             n1 == WrapAdd(n10, FromNat(DigitVal(s[i])))
         IN  IF ULess(n1, n10) THEN [ok |-> FALSE, v |-> AllOnes]
             ELSE ParseDigits(s, i + 1, n1)

\* [ok, v]: ok is err == nil, v the parsed int (meaningful when ok).
Atoi(s) ==
    LET signed == Len(s) > 0 /\ s[1] \in {"+", "-"}
        neg == Len(s) > 0 /\ s[1] = "-"
        body == IF signed THEN Tail(s) ELSE s
    IN  IF Len(body) = 0 \/ \E i \in 1..Len(body) : ~IsDigit(body[i])
        THEN [ok |-> FALSE, v |-> Zero]
        ELSE LET m == ParseDigits(body, 1, Zero)
             IN  IF ~m.ok THEN [ok |-> FALSE, v |-> IF neg THEN MinInt ELSE MaxInt]
                 ELSE IF ~neg /\ ~ULess(m.v, MinInt)
                      THEN [ok |-> FALSE, v |-> MaxInt]
                 ELSE IF neg /\ ULess(MinInt, m.v)
                      THEN [ok |-> FALSE, v |-> MinInt]
                 ELSE [ok |-> TRUE, v |-> IF neg THEN Neg(m.v) ELSE m.v]

RECURSIVE UDigits(_)
UDigits(a) ==
    LET q == UDiv(a, FromNat(10))
        d == ToNat(WrapSub(a, WrapMul(q, FromNat(10))))
    IN  IF q = Zero THEN <<Digits[d + 1]>> ELSE UDigits(q) \o <<Digits[d + 1]>>

\* fmt's %d of an int64: the decimal digits, with "-" for a negative value.
Itoa(a) == IF IsNeg(a) THEN <<"-">> \o UDigits(Neg(a)) ELSE UDigits(a)

(***************************************************************************)
(* encoding/hex and net/url, as the gateway uses them.                     *)
(***************************************************************************)
HexTable == <<"0", "1", "2", "3", "4", "5", "6", "7", "8", "9",
              "a", "b", "c", "d", "e", "f">>
UpperHex == <<"0", "1", "2", "3", "4", "5", "6", "7", "8", "9",
              "A", "B", "C", "D", "E", "F">>

RECURSIVE EncodeToString(_)
EncodeToString(bytes) ==
    IF bytes = <<>> THEN <<>>
    ELSE <<HexTable[(Head(bytes) \div 16) + 1], HexTable[(Head(bytes) % 16) + 1]>>
         \o EncodeToString(Tail(bytes))

\* The ASCII codes of the characters of the model's alphabet that
\* url.QueryEscape writes as %XX (letters, digits, "-", "_", ".", "~" are kept
\* and the space becomes "+").
Escaped == <<[c |-> "&", code |-> 38], [c |-> "=", code |-> 61],
             [c |-> "+", code |-> 43], [c |-> "%", code |-> 37],
             [c |-> "/", code |-> 47], [c |-> "?", code |-> 63]>>

EscapeChar(c) ==
    IF c = " " THEN <<"+">>
    ELSE IF \E k \in 1..Len(Escaped) : Escaped[k].c = c
    THEN LET code == Escaped[CHOOSE k \in 1..Len(Escaped) : Escaped[k].c = c].code
         IN  <<"%", UpperHex[(code \div 16) + 1], UpperHex[(code % 16) + 1]>>
    ELSE <<c>>

RECURSIVE QueryEscape(_)
QueryEscape(s) ==
    IF s = <<>> THEN <<>> ELSE EscapeChar(Head(s)) \o QueryEscape(Tail(s))

\* url.Values.Encode of a list of <<key, value>> pairs already sorted by key.
RECURSIVE Encode(_)
Encode(pairs) ==
    IF pairs = <<>> THEN <<>>
    ELSE LET kv == Head(pairs)
             one == QueryEscape(kv[1]) \o <<"=">> \o QueryEscape(kv[2])
         IN  IF Len(pairs) = 1 THEN one ELSE one \o <<"&">> \o Encode(Tail(pairs))

(***************************************************************************)
(* Data.  A value of an upstream JSON object's field is a tagged scalar;   *)
(* an upstream record (map[string]interface{}) gives one for each key the  *)
(* handlers read, "absent" for a key the object does not carry.  A JSON    *)
(* null element decodes to a nil map, which answers every lookup as an     *)
(* object without keys does.                                               *)
(***************************************************************************)
Absent == [t |-> "absent", n |-> 0, s |-> <<>>]
JNull == [t |-> "null", n |-> 0, s |-> <<>>]
JNum(n) == [t |-> "num", n |-> n, s |-> <<>>]
JStr(s) == [t |-> "str", n |-> 0, s |-> s]

NilItem == [id |-> Absent, title |-> Absent, pub_date |-> Absent,
            source_url |-> Absent, description |-> Absent, created_at |-> Absent]

\* A response or request body: its bytes, told apart by what they decode to.
\*   "empty"    no bytes            "garbage"  not JSON
\*   "null"     the JSON null       "object"   a JSON object
\*   "array"    a JSON array whose elements are objects or nulls
\*   "badarray" a JSON array with an element that is neither
Body(kind, items) == [kind |-> kind, items |-> items]
NoBody == Body("empty", <<>>)

\* What http.DefaultClient.Do and io.ReadAll give for one backend call.
Reply(err, errText, status, readErr, body) ==
    [err |-> err, errText |-> errText, status |-> status, readErr |-> readErr, body |-> body]

\* json.Unmarshal(body, &[]map[string]interface{}): [ok, items].
UnmarshalMaps(body) ==
    CASE body.kind = "array" -> [ok |-> TRUE, items |-> body.items]
      [] body.kind = "null" -> [ok |-> TRUE, items |-> <<>>]
      [] OTHER -> [ok |-> FALSE, items |-> <<>>]

\* json.Unmarshal(body, &[]interface{}): [ok, isNil, items].
UnmarshalArray(body) ==
    CASE body.kind \in {"array", "badarray"} ->
             [ok |-> TRUE, isNil |-> FALSE, items |-> body.items]
      [] body.kind = "null" -> [ok |-> TRUE, isNil |-> TRUE, items |-> <<>>]
      [] OTHER -> [ok |-> FALSE, isNil |-> TRUE, items |-> <<>>]

\* json.Unmarshal(body, &any): err == nil.
ValidJSON(body) == body.kind \in {"null", "object", "array", "badarray"}

(***************************************************************************)
(* Responses.                                                              *)
(***************************************************************************)
StatusOK == 200
StatusCreated == 201
StatusBadRequest == 400
StatusNotFound == 404
StatusMethodNotAllowed == 405
StatusInternalServerError == 500

\* Nothing written yet.
NoResp ==
    [status |-> 0, kind |-> "none", error |-> "", detail |-> "",
     items |-> <<>>, total_pages |-> Zero, current_page |-> Zero,
     items_per_page |-> Zero, total_items |-> Zero,
     news |-> NilItem, commentsNil |-> FALSE, comments |-> <<>>, raw |-> NoBody]

\* http.Error(w, msg, code): a plain-text body.
TextError(code, msg) == [NoResp EXCEPT !.status = code, !.kind = "text", !.error = msg]

\* w.WriteHeader(code); json.NewEncoder(w).Encode(map[string]string{"error": msg + detail}).
JSONError(code, msg, detail) ==
    [NoResp EXCEPT !.status = code, !.kind = "error", !.error = msg, !.detail = detail]

\* json.NewEncoder(w).Encode(PaginatedResponse{...}) with no WriteHeader before
\* it: the status is the implicit 200.
Paginated(items, totalPages, page, count, totalItems) ==
    [NoResp EXCEPT !.status = StatusOK, !.kind = "envelope", !.items = items,
                   !.total_pages = totalPages, !.current_page = page,
                   !.items_per_page = count, !.total_items = totalItems]

sendEmptyPaginatedResponse(page, count) == Paginated(<<>>, Zero, page, count, Zero)
sendEmptyPaginatedResponseFull(page, count) == Paginated(<<>>, Zero, page, count, Zero)

\* The handler panicked before writing anything: net/http recovers, logs and
\* closes the connection, so the client gets no response.
Panicked == [NoResp EXCEPT !.kind = "panic"]

(***************************************************************************)
(* The listing handlers' computation.                                      *)
(***************************************************************************)
getStringValue(item, key) == IF item[key].t = "str" THEN item[key].s ELSE <<>>

\* parsePositive without the "> 0" test.
parsePositive_acceptAny(str, default) ==
    IF str = <<>> THEN default
    ELSE LET parsed == Atoi(str)
         IN  IF parsed.ok THEN parsed.v ELSE default

\* page := 1; if pageStr != "" { if p, err := Atoi(pageStr); err == nil && p > 0 { page = p } }
parsePositive(str, default) ==
    IF str = <<>> THEN default
    ELSE LET parsed == Atoi(str)
         IN  IF parsed.ok /\ Less(Zero, parsed.v) THEN parsed.v ELSE default

parsePage(pageStr) == parsePositive(pageStr, FromNat(1))
parseCount(countStr) == parsePositive(countStr, FromNat(10))

\* The loop over allNews that keeps the records whose title is a string
\* holding the (lower-cased) term.
RECURSIVE filterLoop(_, _, _)
filterLoop(allNews, term, i) ==
    IF i > Len(allNews) THEN <<>>
    ELSE LET item == allNews[i]
         IN  IF item.title.t = "str" /\ Contains(ToLower(item.title.s), term)
             THEN <<item>> \o filterLoop(allNews, term, i + 1)
             ELSE filterLoop(allNews, term, i + 1)

\* filterNews without lower-casing the search term.
filterNews_caseSensitive(allNews, searchTerm) ==
    IF searchTerm # <<>> THEN filterLoop(allNews, searchTerm, 1) ELSE allNews

filterNews(allNews, searchTerm) ==
    IF searchTerm # <<>> THEN filterLoop(allNews, ToLower(searchTerm), 1) ELSE allNews

\* totalPages := (totalItems + count - 1) / count
totalPagesOf(totalItems, count) == Quo(WrapSub(WrapAdd(totalItems, count), One), count)

\* The start index as the handler's comment words it: page * count.
startIndexOf_pageTimesCount(page, count) == WrapMul(page, count)

\* startIndex := (page - 1) * count
startIndexOf(page, count) == WrapMul(WrapSub(page, One), count)

\* endIndex := startIndex + count; if endIndex > totalItems { endIndex = totalItems }
endIndexOf(startIndex, count, totalItems) ==
    LET endIndex == WrapAdd(startIndex, count)
    IN  IF Less(totalItems, endIndex) THEN totalItems ELSE endIndex

\* filteredNews[startIndex:endIndex] panics unless 0 <= startIndex <= endIndex <= cap.
sliceInBounds(startIndex, endIndex, totalItems) ==
    /\ ~IsNeg(startIndex)
    /\ Leq(startIndex, endIndex)
    /\ Leq(endIndex, totalItems)

\* The conversion loops: a record whose id is not a JSON number is skipped.
RECURSIVE toNewsItems(_, _)
toNewsItems(pagedNews, i) ==
    IF i > Len(pagedNews) THEN <<>>
    ELSE LET item == pagedNews[i]
         IN  IF item.id.t # "num" THEN toNewsItems(pagedNews, i + 1)
             ELSE <<[ID |-> item.id.n,
                     Title |-> getStringValue(item, "title"),
                     PubDate |-> getStringValue(item, "pub_date"),
                     SourceURL |-> getStringValue(item, "source_url")]>>
                  \o toNewsItems(pagedNews, i + 1)

RECURSIVE toFullNewsItems(_, _)
toFullNewsItems(pagedNews, i) ==
    IF i > Len(pagedNews) THEN <<>>
    ELSE LET item == pagedNews[i]
         IN  IF item.id.t # "num" THEN toFullNewsItems(pagedNews, i + 1)
             ELSE <<[ID |-> item.id.n,
                     Title |-> getStringValue(item, "title"),
                     Description |-> getStringValue(item, "description"),
                     PubDate |-> getStringValue(item, "pub_date"),
                     SourceURL |-> getStringValue(item, "source_url"),
                     CreatedAt |-> IF item.created_at.t = "str"
                                   THEN item.created_at.s ELSE <<>>]>>
                  \o toFullNewsItems(pagedNews, i + 1)

project(full, pagedNews) ==
    IF full THEN toFullNewsItems(pagedNews, 1) ELSE toNewsItems(pagedNews, 1)

\* The handler's local variables, kept for the properties that speak of them.
NoLocals ==
    [page |-> Zero, count |-> Zero, searchTerm |-> <<>>, newsID |-> Zero,
     newsItem |-> NilItem, filteredNews |-> <<>>, totalItems |-> Zero,
     totalPages |-> Zero, startIndex |-> Zero, endIndex |-> Zero, sliced |-> FALSE]

\* The listing handlers from the filter to the response (handleNews's and
\* handleFullNews's second halves, the same but for the conversion):
\* [resp, loc].  full tells handleFullNews from handleNews.
paginate(full, l, allNews) ==
    LET empty == IF full THEN sendEmptyPaginatedResponseFull(l.page, l.count)
                 ELSE sendEmptyPaginatedResponse(l.page, l.count)
        filteredNews == filterNews(allNews, l.searchTerm)
        totalItems == FromNat(Len(filteredNews))
        totalPages == totalPagesOf(totalItems, l.count)
        startIndex == startIndexOf(l.page, l.count)
        endIndex == endIndexOf(startIndex, l.count, totalItems)
        l1 == [l EXCEPT !.filteredNews = filteredNews, !.totalItems = totalItems,
                        !.totalPages = totalPages]
        l2 == [l1 EXCEPT !.startIndex = startIndex, !.endIndex = endIndex,
                         !.sliced = TRUE]
    IN  IF totalItems = Zero
        THEN [resp |-> empty, loc |-> l1]
        ELSE IF ~Less(startIndex, totalItems)
        THEN [resp |-> empty, loc |-> [l1 EXCEPT !.startIndex = startIndex]]
        ELSE IF ~sliceInBounds(startIndex, endIndex, totalItems)
        THEN [resp |-> Panicked, loc |-> l2]
        ELSE [resp |-> Paginated(project(full, SubSeq(filteredNews, ToNat(startIndex) + 1,
                                                      ToNat(endIndex))),
                                 totalPages, l.page, l.count, totalItems),
              loc |-> l2]

\* listed relaying a non-200 backend status as an error instead of degrading.
listed_relayStatus(full, l, rep) ==
    LET empty == IF full THEN sendEmptyPaginatedResponseFull(l.page, l.count)
                 ELSE sendEmptyPaginatedResponse(l.page, l.count)
        dec == UnmarshalMaps(rep.body)
    IN  IF rep.err
        THEN [resp |-> JSONError(StatusInternalServerError, "could not fetch news", ""),
              loc |-> l]
        ELSE IF rep.status # StatusOK
        THEN [resp |-> JSONError(rep.status, "could not fetch news", ""), loc |-> l]
        ELSE IF rep.readErr \/ rep.body.kind = "empty" \/ ~dec.ok
        THEN [resp |-> empty, loc |-> l]
        ELSE paginate(full, l, dec.items)

\* The listing handlers once the backend call has returned, up to the filter.
listed(full, l, rep) ==
    LET empty == IF full THEN sendEmptyPaginatedResponseFull(l.page, l.count)
                 ELSE sendEmptyPaginatedResponse(l.page, l.count)
        dec == UnmarshalMaps(rep.body)
    IN  IF rep.err
        THEN [resp |-> JSONError(StatusInternalServerError, "could not fetch news", ""),
              loc |-> l]
        ELSE IF rep.status # StatusOK \/ rep.readErr \/ rep.body.kind = "empty" \/ ~dec.ok
        THEN [resp |-> empty, loc |-> l]
        ELSE paginate(full, l, dec.items)

(***************************************************************************)
(* The backend client.                                                     *)
(***************************************************************************)
\* The query parameter that carries the request id.
RequestIDParam == <<"r", "e", "q", "u", "e", "s", "t", "_", "i", "d">>

\* Contexts.  A context is known here by the value it carries under
\* requestIDKey and by whose cancellation ends it: root is "inbound" for the
\* context of the inbound request and every context derived from it.
Context(root, requestID) == [root |-> root, requestID |-> requestID]
\* r.Context() of the request net/http hands to the outermost handler.
InboundContext == Context("inbound", <<>>)
\* context.WithValue(parent, requestIDKey, requestID).
WithValue(parent, requestID) == [parent EXCEPT !.requestID = requestID]

\* makeBackendRequest with the request id written into the query as it is,
\* not escaped.
makeBackendRequest_unescaped(method, svc, path, arg, query, rctx) ==
    LET requestID == rctx.requestID
    IN  [method |-> method, svc |-> svc, path |-> path, arg |-> arg,
         rawQuery |-> IF query = <<>>
                      THEN RequestIDParam \o <<"=">> \o requestID
                      ELSE Encode(query) \o <<"&">> \o RequestIDParam \o <<"=">> \o requestID,
         contentType |-> "", text |-> <<>>, ctx |-> rctx.root]

\* makeBackendRequest making the request with http.NewRequest, which puts it
\* under context.Background() whatever context the handler passes.
makeBackendRequest_background(method, svc, path, arg, query, rctx) ==
    LET requestID == rctx.requestID
    IN  [method |-> method, svc |-> svc, path |-> path, arg |-> arg,
         rawQuery |-> IF requestID # <<>>
                      THEN Encode(query \o << <<RequestIDParam, requestID>> >>)
                      ELSE Encode(query),
         contentType |-> "", text |-> <<>>, ctx |-> "background"]

\* makeBackendRequest(method, url, ctx, body), up to http.DefaultClient.Do:
\* the outbound request.  path and arg are the URL's path (arg the %d written
\* into it, if any), query the pairs the URL already carries; rctx is the
\* context the caller passes.  The request id is read from rctx, added under
\* "request_id", and the query re-encoded; the request is made with
\* http.NewRequestWithContext(rctx, ...), so it ends when rctx does.
makeBackendRequest(method, svc, path, arg, query, rctx) ==
    LET requestID == rctx.requestID
    IN  [method |-> method, svc |-> svc, path |-> path, arg |-> arg,
         rawQuery |-> IF requestID # <<>>
                      THEN Encode(query \o << <<RequestIDParam, requestID>> >>)
                      ELSE Encode(query),
         contentType |-> "", text |-> <<>>, ctx |-> rctx.root]

\* The request handleAddComment builds by hand, with
\* http.NewRequestWithContext(r.Context(), ...): a JSON POST of {"text": text}.
addCommentRequest(arg, text, rctx) ==
    [makeBackendRequest("POST", "comments", "/api/comm_add_news", <<>>,
                        << <<<<"i", "d">>, arg>> >>, rctx)
     EXCEPT !.contentType = "application/json", !.text = text]

(***************************************************************************)
(* The middleware.                                                         *)
(***************************************************************************)
\* generateRequestID(length): rnd is what crypto/rand.Read gives, an error
\* or the bytes.  [err, id].
generateRequestID(length, rnd) ==
    IF rnd.err THEN [err |-> TRUE, id |-> <<>>]
    ELSE [err |-> FALSE, id |-> EncodeToString(SubSeq(rnd.bytes, 1, length \div 2))]

\* requestIDMiddleware up to next.ServeHTTP: [failed, requestID].
chooseRequestID(rq, rnd) ==
    LET supplied == rq.q.request_id
        gen == generateRequestID(8, rnd)
    IN  IF supplied # <<>> THEN [failed |-> FALSE, requestID |-> supplied]
        ELSE IF gen.err THEN [failed |-> TRUE, requestID |-> <<>>]
        ELSE [failed |-> FALSE, requestID |-> gen.id]

(***************************************************************************)
(* The handlers, as functions from what a handler has in hand to what it   *)
(* does next: [pc, resp, loc, calls], calls the backend requests it sends. *)
(***************************************************************************)
Done(rs, l) == [pc |-> "done", resp |-> rs, loc |-> l, calls |-> <<>>]
Await(at, l, call) == [pc |-> at, resp |-> NoResp, loc |-> l, calls |-> <<call>>]
Wait(at, l) == [pc |-> at, resp |-> NoResp, loc |-> l, calls |-> <<>>]

\* handleNews up to its first backend call.
handleNewsBegin(rq, rctx) ==
    LET commentNewsID == rq.q.comm
        parsedID == Atoi(commentNewsID)
        l == [NoLocals EXCEPT !.page = parsePage(rq.q.page),
                              !.count = parseCount(rq.q.count),
                              !.searchTerm = rq.q.s]
    IN  IF commentNewsID # <<>>
        THEN IF rq.q.m # <<>>
             THEN Done(JSONError(StatusBadRequest, "adding comments by GET is deprecated", ""),
                       NoLocals)
             ELSE IF ~parsedID.ok
             THEN Done(JSONError(StatusBadRequest, "invalid news id", ""), NoLocals)
             ELSE Await("awaitItem", [NoLocals EXCEPT !.newsID = parsedID.v],
                        makeBackendRequest("GET", "news", "/api/news/%d", Itoa(parsedID.v),
                                           <<>>, rctx))
        ELSE IF rq.method # "GET"
        THEN Done(TextError(StatusMethodNotAllowed, "method not allowed"), NoLocals)
        ELSE Await("awaitList", l,
                   makeBackendRequest("GET", "news", "/api/news/", <<>>, <<>>, rctx))

\* handleFullNews up to its backend call.
handleFullNewsBegin(rq, rctx) ==
    LET l == [NoLocals EXCEPT !.page = parsePage(rq.q.page),
                              !.count = parseCount(rq.q.count),
                              !.searchTerm = rq.q.s]
    IN  IF rq.method # "GET"
        THEN Done(TextError(StatusMethodNotAllowed, "method not allowed"), NoLocals)
        ELSE Await("awaitList", l,
                   makeBackendRequest("GET", "news", "/api/news/", <<>>, <<>>, rctx))

\* newsItemFetched making the news call again after a transport error.
newsItemFetched_retry(l, rep, rctx) ==
    LET dec == UnmarshalMaps(rep.body)
    IN  IF rep.err
        THEN Await("awaitItem", l,
                   makeBackendRequest("GET", "news", "/api/news/%d", Itoa(l.newsID),
                                      <<>>, rctx))
        ELSE IF rep.status # StatusOK
        THEN Done(JSONError(rep.status, "news item not found", ""), l)
        ELSE IF rep.readErr
        THEN Done(JSONError(StatusInternalServerError,
                            "error processing the news service reply", ""), l)
        ELSE IF ~dec.ok
        THEN Done(JSONError(StatusInternalServerError, "error processing the news item", ""), l)
        ELSE IF Len(dec.items) = 0
        THEN Done(JSONError(StatusNotFound, "news item not found", ""), l)
        ELSE Await("awaitComments", [l EXCEPT !.newsItem = dec.items[1]],
                   makeBackendRequest("GET", "comments", "/api/comm_news", <<>>,
                                      << <<<<"i", "d">>, Itoa(l.newsID)>> >>, rctx))

\* newsItemFetched answering 500 for every non-200 backend status.
newsItemFetched_no_relay(l, rep, rctx) ==
    LET dec == UnmarshalMaps(rep.body)
    IN  IF rep.err \/ rep.status # StatusOK
        THEN Done(JSONError(StatusInternalServerError, "could not fetch the news item", ""), l)
        ELSE IF rep.readErr
        THEN Done(JSONError(StatusInternalServerError,
                            "error processing the news service reply", ""), l)
        ELSE IF ~dec.ok
        THEN Done(JSONError(StatusInternalServerError, "error processing the news item", ""), l)
        ELSE IF Len(dec.items) = 0
        THEN Done(JSONError(StatusNotFound, "news item not found", ""), l)
        ELSE Await("awaitComments", [l EXCEPT !.newsItem = dec.items[1]],
                   makeBackendRequest("GET", "comments", "/api/comm_news", <<>>,
                                      << <<<<"i", "d">>, Itoa(l.newsID)>> >>, rctx))

\* The composite flow once the news call has returned.
newsItemFetched(l, rep, rctx) ==
    LET dec == UnmarshalMaps(rep.body)
    IN  IF rep.err
        THEN Done(JSONError(StatusInternalServerError, "could not fetch the news item", ""), l)
        ELSE IF rep.status # StatusOK
        THEN Done(JSONError(rep.status, "news item not found", ""), l)
        ELSE IF rep.readErr
        THEN Done(JSONError(StatusInternalServerError,
                            "error processing the news service reply", ""), l)
        ELSE IF ~dec.ok
        THEN Done(JSONError(StatusInternalServerError, "error processing the news item", ""), l)
        ELSE IF Len(dec.items) = 0
        THEN Done(JSONError(StatusNotFound, "news item not found", ""), l)
        ELSE Await("awaitComments", [l EXCEPT !.newsItem = dec.items[1]],
                   makeBackendRequest("GET", "comments", "/api/comm_news", <<>>,
                                      << <<<<"i", "d">>, Itoa(l.newsID)>> >>, rctx))

\* {"news": newsItem, "comments": comments} with status 200.
Composite(newsItem, commentsNil, comments) ==
    [NoResp EXCEPT !.status = StatusOK, !.kind = "composite", !.news = newsItem,
                   !.commentsNil = commentsNil, !.comments = comments]

\* commentsFetched surfacing a failed comments call instead of degrading.
commentsFetched_surfaceError(l, rep) ==
    LET dec == UnmarshalArray(rep.body)
    IN  IF rep.err \/ rep.readErr
        THEN Done(JSONError(StatusInternalServerError, "could not fetch the comments", ""), l)
        ELSE IF ~dec.ok
        THEN Done(Composite(l.newsItem, FALSE, <<>>), l)
        ELSE Done(Composite(l.newsItem, dec.isNil, dec.items), l)

\* The composite flow once the comments call has returned.
commentsFetched(l, rep) ==
    LET dec == UnmarshalArray(rep.body)
    IN  IF rep.err \/ rep.readErr \/ ~dec.ok
        THEN Done(Composite(l.newsItem, FALSE, <<>>), l)
        ELSE Done(Composite(l.newsItem, dec.isNil, dec.items), l)

\* json.NewDecoder(r.Body).Decode(&struct{Text string}): [ok, text].
decodeText(body) ==
    CASE body.kind = "object" /\ body.text.t = "str" -> [ok |-> TRUE, text |-> body.text.s]
      [] body.kind = "object" /\ body.text.t \in {"absent", "null"} ->
             [ok |-> TRUE, text |-> <<>>]
      [] body.kind = "null" -> [ok |-> TRUE, text |-> <<>>]
      [] OTHER -> [ok |-> FALSE, text |-> <<>>]

\* handleAddComment up to json.NewDecoder(r.Body).Decode, where it waits for
\* the request body: the method and the news id are checked before.
handleAddCommentBegin(rq) ==
    LET newsIDStr == IF rq.q.news_id # <<>> THEN rq.q.news_id ELSE rq.q.id
        parsedID == Atoi(newsIDStr)
    IN  IF rq.method # "POST"
        THEN Done(TextError(StatusMethodNotAllowed, "method not allowed, use POST"), NoLocals)
        ELSE IF ~parsedID.ok \/ newsIDStr = <<>>
        THEN Done(JSONError(StatusBadRequest, "invalid news id", ""), NoLocals)
        ELSE Wait("readBody", [NoLocals EXCEPT !.newsID = parsedID.v])

\* handleAddCommentDecoded without the empty-text check.
handleAddCommentDecoded_noTextCheck(l, body, rctx) ==
    LET requestData == decodeText(body)
    IN  IF ~requestData.ok
        THEN Done(JSONError(StatusBadRequest, "bad JSON or no request body", ""), NoLocals)
        ELSE Await("awaitAdd", l, addCommentRequest(Itoa(l.newsID), requestData.text, rctx))

\* handleAddComment from the decode of the request body, once it has come,
\* up to its backend call.
handleAddCommentDecoded(l, body, rctx) ==
    LET requestData == decodeText(body)
    IN  IF ~requestData.ok
        THEN Done(JSONError(StatusBadRequest, "bad JSON or no request body", ""), NoLocals)
        ELSE IF requestData.text = <<>>
        THEN Done(JSONError(StatusBadRequest, "the comment must not be empty", ""), NoLocals)
        ELSE Await("awaitAdd", l, addCommentRequest(Itoa(l.newsID), requestData.text, rctx))

\* w.WriteHeader(code); w.Write(body): the backend's bytes as they came.
Raw(code, body) == [NoResp EXCEPT !.status = code, !.kind = "raw", !.raw = body]

\* handleAddComment once the comments backend has answered.
commentAdded(l, rep) ==
    IF rep.err
    THEN Done(JSONError(StatusInternalServerError, "could not add the comment: ",
                        rep.errText), l)
    ELSE IF rep.status # StatusOK /\ rep.status # StatusCreated
    THEN Done(JSONError(rep.status, "error adding the comment", ""), l)
    ELSE IF rep.readErr
    THEN Done(JSONError(StatusInternalServerError,
                        "error processing the comments service reply", ""), l)
    ELSE Done(Raw(StatusOK, rep.body), l)

\* handleComments up to its backend call.
handleCommentsBegin(rq, rctx) ==
    LET newsIDStr == rq.q.id
        parsedID == Atoi(newsIDStr)
    IN  IF rq.method # "GET"
        THEN Done(TextError(StatusMethodNotAllowed, "method not allowed"), NoLocals)
        ELSE IF newsIDStr = <<>>
        THEN Done(JSONError(StatusBadRequest, "no news id given", ""), NoLocals)
        ELSE IF ~parsedID.ok
        THEN Done(JSONError(StatusBadRequest, "invalid news id", ""), NoLocals)
        ELSE Await("awaitRead", [NoLocals EXCEPT !.newsID = parsedID.v],
                   makeBackendRequest("GET", "comments", "/api/comm_news", <<>>,
                                      << <<<<"i", "d">>, Itoa(parsedID.v)>> >>, rctx))

\* commentsRead decoding the body as an array of comments and encoding it
\* again.
commentsRead_reencoded(l, rep) ==
    IF rep.err
    THEN Done(JSONError(StatusInternalServerError, "could not fetch the comments: ",
                        rep.errText), l)
    ELSE IF rep.status # StatusOK
    THEN Done(JSONError(rep.status, "error fetching the comments", ""), l)
    ELSE IF rep.readErr
    THEN Done(JSONError(StatusInternalServerError, "error processing the comments", ""), l)
    ELSE IF ~ValidJSON(rep.body)
    THEN Done(JSONError(StatusInternalServerError, "error processing the comments", ""), l)
    ELSE Done(Raw(StatusOK, Body("array", UnmarshalArray(rep.body).items)), l)

\* handleComments once the comments backend has answered.
commentsRead(l, rep) ==
    IF rep.err
    THEN Done(JSONError(StatusInternalServerError, "could not fetch the comments: ",
                        rep.errText), l)
    ELSE IF rep.status # StatusOK
    THEN Done(JSONError(rep.status, "error fetching the comments", ""), l)
    ELSE IF rep.readErr
    THEN Done(JSONError(StatusInternalServerError, "error processing the comments", ""), l)
    ELSE IF ~ValidJSON(rep.body)
    THEN Done(JSONError(StatusInternalServerError, "error processing the comments", ""), l)
    ELSE Done(Raw(StatusOK, rep.body), l)

\* handleNewsWithID up to its backend call; rq.rest is the path after "/api/news/".
handleNewsWithIDBegin(rq, rctx) ==
    LET parsedID == Atoi(rq.rest)
    IN  IF ~parsedID.ok
        THEN Done(TextError(StatusBadRequest, "invalid news id"), NoLocals)
        ELSE Await("awaitOne", [NoLocals EXCEPT !.newsID = parsedID.v],
                   makeBackendRequest("GET", "news", "/api/news/%d", Itoa(parsedID.v),
                                      <<>>, rctx))

\* json.NewEncoder(w).Encode(newsItem) with status 200.
NewsObject(newsItem) == [NoResp EXCEPT !.status = StatusOK, !.kind = "news", !.news = newsItem]

\* handleNewsWithID once the news backend has answered.
oneNewsFetched(l, rep) ==
    LET dec == UnmarshalMaps(rep.body)
    IN  IF rep.err
        THEN Done(TextError(StatusInternalServerError, "could not fetch the news item"), l)
        ELSE IF rep.status # StatusOK
        THEN Done(TextError(rep.status, "news item not found"), l)
        ELSE IF rep.readErr
        THEN Done(JSONError(StatusInternalServerError,
                            "error processing the news service reply", ""), l)
        ELSE IF ~dec.ok
        THEN Done(JSONError(StatusInternalServerError, "error processing the news item", ""), l)
        ELSE IF Len(dec.items) = 0
        THEN Done(JSONError(StatusNotFound, "news item not found", ""), l)
        ELSE Done(NewsObject(dec.items[1]), [l EXCEPT !.newsItem = dec.items[1]])

(***************************************************************************)
(* The server: one slot per request being served.                          *)
(***************************************************************************)
NumSlots == 2
Slots == 1..NumSlots

VARIABLES
    pc,     \* where each slot's request is: "off", "idle", "handler",
            \* "readBody" (waiting for the request body), "awaitX" (in
            \* http.Client.Do) and "readX" (in io.ReadAll) for X among
            \* List, Item, Comments, Add, Read, One, and "done"
    req,    \* the inbound request
    hdr,    \* the X-Request-ID response header (<<>>: not set)
    ctx,    \* the context of the request the handler is given
    loc,    \* the handler's local variables
    out,    \* the backend requests sent for this request, in order
    got,    \* what came back for each of them, in order
    head,   \* what Do returned for the call whose body is being read
    resp,   \* the response written
    cancelled   \* the inbound request's context is cancelled

vars == <<pc, req, hdr, ctx, loc, out, got, head, resp, cancelled>>

Query(request_id, comm, m, page, count, s, news_id, id) ==
    [request_id |-> request_id, comm |-> comm, m |-> m, page |-> page,
     count |-> count, s |-> s, news_id |-> news_id, id |-> id]
NoQuery == Query(<<>>, <<>>, <<>>, <<>>, <<>>, <<>>, <<>>, <<>>)

ReqBody(kind, text) == [kind |-> kind, text |-> text]
NoReqBody == ReqBody("empty", Absent)

Request(method, path, rest, q, body) ==
    [method |-> method, path |-> path, rest |-> rest, q |-> q, body |-> body]
NoReq == Request("", "", <<>>, NoQuery, NoReqBody)

\* No request, no context.
NoCtx == Context("none", <<>>)

\* What http.DefaultClient.Do returns: an error, or a response whose status
\* is known and whose body is still to be read.
HeadOf(rep) == [err |-> rep.err, errText |-> rep.errText, status |-> rep.status]
NoHead == [err |-> FALSE, errText |-> "", status |-> 0]
Heads(Reps) == {HeadOf(rep) : rep \in Reps}
\* The reply of a call whose body the handler does not read.
Unread(h) == Reply(h.err, h.errText, h.status, FALSE, NoBody)

InitSlots(active) ==
    /\ pc = [r \in Slots |-> IF r \in active THEN "idle" ELSE "off"]
    /\ req = [r \in Slots |-> NoReq]
    /\ hdr = [r \in Slots |-> <<>>]
    /\ ctx = [r \in Slots |-> NoCtx]
    /\ loc = [r \in Slots |-> NoLocals]
    /\ out = [r \in Slots |-> <<>>]
    /\ got = [r \in Slots |-> <<>>]
    /\ head = [r \in Slots |-> NoHead]
    /\ resp = [r \in Slots |-> NoResp]
    /\ cancelled = [r \in Slots |-> FALSE]

\* A request arrives and goes through requestIDMiddleware (loggingMiddleware,
\* which only logs, changes nothing here).
requestIDMiddleware(r, Reqs, Rands) ==
    /\ pc[r] = "idle"
    /\ \E rq \in Reqs, rnd \in Rands :
          LET c == chooseRequestID(rq, rnd)
          IN  /\ req' = [req EXCEPT ![r] = rq]
              /\ pc' = [pc EXCEPT ![r] = IF c.failed THEN "done" ELSE "handler"]
              /\ resp' = [resp EXCEPT ![r] =
                            IF c.failed
                            THEN TextError(StatusInternalServerError, "internal server error")
                            ELSE NoResp]
              /\ hdr' = [hdr EXCEPT ![r] = c.requestID]
              /\ ctx' = [ctx EXCEPT ![r] = WithValue(InboundContext, c.requestID)]
    /\ UNCHANGED <<loc, out, got, head, cancelled>>

\* The handler runs on to n: its next wait, or its response.
Run(r, n) ==
    /\ pc' = [pc EXCEPT ![r] = n.pc]
    /\ resp' = [resp EXCEPT ![r] = n.resp]
    /\ loc' = [loc EXCEPT ![r] = n.loc]
    /\ out' = [out EXCEPT ![r] = out[r] \o n.calls]

\* A handler runs up to its first wait, or to its response.
Begin(r, path, n) ==
    /\ pc[r] = "handler"
    /\ req[r].path = path
    /\ Run(r, n)
    /\ UNCHANGED <<req, hdr, ctx, got, head, cancelled>>

\* What json.NewDecoder(r.Body) finds to read: the body the client sends, or,
\* when the client has gone away, possibly a body cut short.
BodyRead(rq, isCancelled) ==
    {rq.body} \cup (IF isCancelled THEN {ReqBody("garbage", Absent)} ELSE {})

\* The HTTP transport, which is not the gateway's code: http.Client.Do and the
\* read of the response body.  Its contract towards the gateway is that a
\* call sent under a context ends with that context: once the context is
\* cancelled, Do returns an error and the read of a body fails.  A call sent
\* under any other context is not touched by the cancellation.
Aborted(rep) == rep.err \/ rep.readErr
Deliverable(call, isCancelled, failed) ==
    (call.ctx = InboundContext.root /\ isCancelled) => failed

\* http.DefaultClient.Do returns h for the call in flight.  The handler tests
\* err and StatusCode: it goes on to io.ReadAll(resp.Body) and waits there
\* (reads), or answers at once (n).
Responded(r, h, reads, at, n) ==
    /\ Deliverable(out[r][Len(out[r])], cancelled[r], h.err)
    /\ IF reads
       THEN /\ pc' = [pc EXCEPT ![r] = at]
            /\ head' = [head EXCEPT ![r] = h]
            /\ UNCHANGED <<got, resp, loc, out>>
       ELSE /\ got' = [got EXCEPT ![r] = Append(got[r], Unread(h))]
            /\ Run(r, n)
            /\ UNCHANGED head
    /\ UNCHANGED <<req, hdr, ctx, cancelled>>

\* io.ReadAll returns for the response Do gave: rep is the whole reply, and
\* the handler runs on from there.
Resume(r, rep, n) ==
    /\ HeadOf(rep) = head[r]
    /\ Deliverable(out[r][Len(out[r])], cancelled[r], rep.readErr)
    /\ got' = [got EXCEPT ![r] = Append(got[r], rep)]
    /\ head' = [head EXCEPT ![r] = NoHead]
    /\ Run(r, n)
    /\ UNCHANGED <<req, hdr, ctx, cancelled>>

\* The tests between Do and io.ReadAll: the listing, composite-news and
\* news-by-id handlers read the body of a 200 only, the comment handlers the
\* body of every response.
ReadsOK(h) == ~h.err /\ h.status = StatusOK
ReadsAny(h) == ~h.err

handleNews(r) == Begin(r, "/api/news", handleNewsBegin(req[r], ctx[r]))

handleFullNews(r) == Begin(r, "/api/fullnews", handleFullNewsBegin(req[r], ctx[r]))

\* handleComments taking the request id of the last slot's request, as if
\* the id were kept in one place shared by all requests.
handleComments_sharedID(r) ==
    Begin(r, "/api/comments", handleCommentsBegin(req[r], ctx[NumSlots]))

handleComments(r) == Begin(r, "/api/comments", handleCommentsBegin(req[r], ctx[r]))

handleAddComment(r) == Begin(r, "/api/comments/add", handleAddCommentBegin(req[r]))

\* The request body has come (or the wait for it has ended) and is decoded.
handleAddCommentBody(r) ==
    /\ pc[r] = "readBody"
    /\ \E body \in BodyRead(req[r], cancelled[r]) :
          Run(r, handleAddCommentDecoded(loc[r], body, ctx[r]))
    /\ UNCHANGED <<req, hdr, ctx, got, head, cancelled>>

handleNewsWithID(r) == Begin(r, "/api/news/", handleNewsWithIDBegin(req[r], ctx[r]))

handleNewsResponded(r, Reps) ==
    /\ pc[r] = "awaitList"
    /\ req[r].path = "/api/news"
    /\ \E h \in Heads(Reps) :
          LET n == listed(FALSE, loc[r], Unread(h))
          IN  Responded(r, h, ReadsOK(h), "readList", Done(n.resp, n.loc))

handleNewsListed(r, Reps) ==
    /\ pc[r] = "readList"
    /\ req[r].path = "/api/news"
    /\ \E rep \in Reps :
          LET n == listed(FALSE, loc[r], rep)
          IN  Resume(r, rep, Done(n.resp, n.loc))

handleFullNewsResponded(r, Reps) ==
    /\ pc[r] = "awaitList"
    /\ req[r].path = "/api/fullnews"
    /\ \E h \in Heads(Reps) :
          LET n == listed(TRUE, loc[r], Unread(h))
          IN  Responded(r, h, ReadsOK(h), "readList", Done(n.resp, n.loc))

handleFullNewsListed(r, Reps) ==
    /\ pc[r] = "readList"
    /\ req[r].path = "/api/fullnews"
    /\ \E rep \in Reps :
          LET n == listed(TRUE, loc[r], rep)
          IN  Resume(r, rep, Done(n.resp, n.loc))

handleNewsItemResponded(r, Reps) ==
    /\ pc[r] = "awaitItem"
    /\ \E h \in Heads(Reps) :
          Responded(r, h, ReadsOK(h), "readItem", newsItemFetched(loc[r], Unread(h), ctx[r]))

handleNewsItemFetched(r, Reps) ==
    /\ pc[r] = "readItem"
    /\ \E rep \in Reps : Resume(r, rep, newsItemFetched(loc[r], rep, ctx[r]))

handleNewsCommentsResponded(r, Reps) ==
    /\ pc[r] = "awaitComments"
    /\ \E h \in Heads(Reps) :
          Responded(r, h, ReadsAny(h), "readComments", commentsFetched(loc[r], Unread(h)))

handleNewsCommentsFetched(r, Reps) ==
    /\ pc[r] = "readComments"
    /\ \E rep \in Reps : Resume(r, rep, commentsFetched(loc[r], rep))

handleAddCommentResponded(r, Reps) ==
    /\ pc[r] = "awaitAdd"
    /\ \E h \in Heads(Reps) :
          Responded(r, h, ReadsAny(h), "readAdd", commentAdded(loc[r], Unread(h)))

handleAddCommentSent(r, Reps) ==
    /\ pc[r] = "readAdd"
    /\ \E rep \in Reps : Resume(r, rep, commentAdded(loc[r], rep))

handleCommentsResponded(r, Reps) ==
    /\ pc[r] = "awaitRead"
    /\ \E h \in Heads(Reps) :
          Responded(r, h, ReadsAny(h), "readRead", commentsRead(loc[r], Unread(h)))

handleCommentsFetched(r, Reps) ==
    /\ pc[r] = "readRead"
    /\ \E rep \in Reps : Resume(r, rep, commentsRead(loc[r], rep))

handleNewsWithIDResponded(r, Reps) ==
    /\ pc[r] = "awaitOne"
    /\ \E h \in Heads(Reps) :
          Responded(r, h, ReadsOK(h), "readOne", oneNewsFetched(loc[r], Unread(h)))

handleNewsWithIDFetched(r, Reps) ==
    /\ pc[r] = "readOne"
    /\ \E rep \in Reps : Resume(r, rep, oneNewsFetched(loc[r], rep))

\* The response has gone out; the slot serves the next request.
Finish(r) ==
    /\ pc[r] = "done"
    /\ pc' = [pc EXCEPT ![r] = "idle"]
    /\ req' = [req EXCEPT ![r] = NoReq]
    /\ hdr' = [hdr EXCEPT ![r] = <<>>]
    /\ ctx' = [ctx EXCEPT ![r] = NoCtx]
    /\ loc' = [loc EXCEPT ![r] = NoLocals]
    /\ out' = [out EXCEPT ![r] = <<>>]
    /\ got' = [got EXCEPT ![r] = <<>>]
    /\ head' = [head EXCEPT ![r] = NoHead]
    /\ resp' = [resp EXCEPT ![r] = NoResp]
    /\ cancelled' = [cancelled EXCEPT ![r] = FALSE]

\* The client goes away, or its deadline passes, while the request is being
\* served: the inbound request's context is cancelled.
Cancel(r) ==
    /\ pc[r] \notin {"off", "idle", "done"}
    /\ ~cancelled[r]
    /\ cancelled' = [cancelled EXCEPT ![r] = TRUE]
    /\ UNCHANGED <<pc, req, hdr, ctx, loc, out, got, head, resp>>

(***************************************************************************)
(* Inputs: the requests clients send and what the backends answer.         *)
(***************************************************************************)
MaxItems == 12

S_r1 == <<"r", "1">>
S_odd == <<"a", "&", " ", "=", "b">>
S_x == <<"x">>
S_abc == <<"a", "b", "c">>
S_0 == <<"0">>
S_m1 == <<"-", "1">>
S_m5 == <<"-", "5">>
S_1 == <<"1">>
S_2 == <<"2">>
S_3 == <<"3">>
S_5 == <<"5">>
S_p7 == <<"+", "7">>
S_2p32 == <<"4", "2", "9", "4", "9", "6", "7", "2", "9", "6">>
S_2p32p1 == <<"4", "2", "9", "4", "9", "6", "7", "2", "9", "7">>
S_2p62 == <<"4", "6", "1", "1", "6", "8", "6", "0", "1", "8", "4", "2", "7", "3", "8", "7", "9", "0", "4">>
S_maxint == <<"9", "2", "2", "3", "3", "7", "2", "0", "3", "6", "8", "5", "4", "7", "7", "5", "8", "0", "7">>
S_2p63 == <<"9", "2", "2", "3", "3", "7", "2", "0", "3", "6", "8", "5", "4", "7", "7", "5", "8", "0", "8">>
S_eL == <<"e", "L">>
S_zz == <<"z", "z">>
S_hi == <<"h", "i">>

Titles == <<<<"E", "L", "e">>, <<"x", "e", "l">>, <<"s", "u", "n">>>>

\* The i-th record of an upstream collection.  In a "plain" collection every
\* record has a numeric id and a string title; a "ragged" one has records with
\* a string for id, without a title, with a number for title, and null elements.
Item(i, v) ==
    LET good == [id |-> JNum(i), title |-> JStr(Titles[((i - 1) % 3) + 1]),
                 pub_date |-> JStr(<<"d">>), source_url |-> JStr(<<"u">>),
                 description |-> JStr(<<"t">>),
                 created_at |-> IF i % 2 = 0 THEN JStr(<<"c">>) ELSE Absent]
    IN  IF v = "plain" THEN good
        ELSE IF i % 7 = 0 THEN NilItem
        ELSE IF i % 3 = 2 THEN [good EXCEPT !.id = JStr(<<"7">>)]
        ELSE IF i % 4 = 3 THEN [good EXCEPT !.title = Absent]
        ELSE IF i % 5 = 0 THEN [good EXCEPT !.title = JNum(5)]
        ELSE good

Coll(n, v) == [i \in 1..n |-> Item(i, v)]

TransportError(text) == Reply(TRUE, text, 0, FALSE, NoBody)
Answer(status, body) == Reply(FALSE, "", status, FALSE, body)
ReadError(status) == Reply(FALSE, "", status, TRUE, NoBody)

\* The bodies that are not an array of records.
OddBodies == {Body("empty", <<>>), Body("garbage", <<>>), Body("null", <<>>),
              Body("object", <<>>), Body("badarray", <<JNum(1)>>)}

Rands == {[err |-> TRUE, bytes |-> <<0, 0, 0, 0>>],
          [err |-> FALSE, bytes |-> <<0, 0, 0, 0>>],
          [err |-> FALSE, bytes |-> <<222, 173, 190, 239>>]}

\* The listing specification's inputs.
PageStrs == {<<>>, S_x, S_0, S_m1, S_1, S_2, S_3, S_2p32p1, S_2p63}
CountStrs == {<<>>, S_abc, S_0, S_m5, S_1, S_5, S_2p32, S_2p62, S_maxint}

ListingReqs ==
    {Request("GET", path, <<>>, Query(S_r1, <<>>, <<>>, page, count, <<>>, <<>>, <<>>),
             NoReqBody) :
        path \in {"/api/news", "/api/fullnews"}, page \in PageStrs, count \in CountStrs}
    \cup
    {Request("GET", path, <<>>, Query(S_r1, <<>>, <<>>, page, count, s, <<>>, <<>>),
             NoReqBody) :
        path \in {"/api/news", "/api/fullnews"}, page \in {<<>>, S_2},
        count \in {<<>>, S_1, S_2}, s \in {S_eL, S_zz}}
    \cup
    {Request("POST", path, <<>>, NoQuery, NoReqBody) :
        path \in {"/api/news", "/api/fullnews"}}

ListingReps ==
    {TransportError("connection refused"), ReadError(StatusOK),
     Answer(StatusNotFound, Body("array", Coll(1, "plain"))),
     Answer(StatusInternalServerError, Body("garbage", <<>>))}
    \cup {Answer(StatusOK, b) : b \in OddBodies}
    \cup {Answer(StatusOK, Body("array", Coll(n, v))) :
             n \in 0..MaxItems, v \in {"plain", "ragged"}}

InitListing == InitSlots({1})

NextListing ==
    \E r \in Slots :
        \/ requestIDMiddleware(r, ListingReqs, Rands)
        \/ handleNews(r)
        \/ handleFullNews(r)
        \/ handleNewsResponded(r, ListingReps)
        \/ handleNewsListed(r, ListingReps)
        \/ handleFullNewsResponded(r, ListingReps)
        \/ handleFullNewsListed(r, ListingReps)
        \/ Finish(r)

\* The two listing endpoints under every page, count and search input and
\* every answer of the news backend.
SpecListing == InitListing /\ [][NextListing]_vars

\* The gateway specification's inputs: every route, with and without a
\* request id, and every kind of answer of either backend.
RIDs == {<<>>, S_r1, S_odd}

CommentItem(i) ==
    [id |-> JNum(i), news_id |-> JNum(5), message |-> JStr(S_hi), created_at |-> JStr(<<"c">>)]

ReqBodies ==
    {ReqBody("empty", Absent), ReqBody("garbage", Absent), ReqBody("null", Absent),
     ReqBody("array", Absent), ReqBody("object", Absent), ReqBody("object", JNull),
     ReqBody("object", JNum(5)), ReqBody("object", JStr(<<>>)), ReqBody("object", JStr(S_hi))}

GatewayReqs ==
    {Request("GET", path, <<>>, Query(rid, <<>>, <<>>, page, <<>>, <<>>, <<>>, <<>>),
             NoReqBody) :
        path \in {"/api/news", "/api/fullnews"}, rid \in RIDs, page \in {<<>>, S_2}}
    \cup
    {Request(method, "/api/news", <<>>, Query(rid, comm, m, <<>>, <<>>, <<>>, <<>>, <<>>),
             NoReqBody) :
        method \in {"GET", "POST"}, rid \in RIDs, comm \in {S_5, S_x, S_m1, S_2p63},
        m \in {<<>>, S_1}}
    \cup
    {Request(method, "/api/comments", <<>>,
             Query(rid, <<>>, <<>>, <<>>, <<>>, <<>>, <<>>, id), NoReqBody) :
        method \in {"GET", "POST"}, rid \in RIDs, id \in {<<>>, S_x, S_3}}
    \cup
    {Request(method, "/api/comments/add", <<>>,
             Query(rid, <<>>, <<>>, <<>>, <<>>, <<>>, news_id, id), body) :
        method \in {"POST", "GET"}, rid \in {<<>>, S_odd}, news_id \in {<<>>, S_5, S_x},
        id \in {<<>>, S_p7, S_abc}, body \in ReqBodies}
    \cup
    {Request("GET", "/api/news/", rest, Query(rid, <<>>, <<>>, <<>>, <<>>, <<>>, <<>>, <<>>),
             NoReqBody) :
        rid \in RIDs, rest \in {<<>>, S_5, S_abc, S_m1}}

NewsReps ==
    {TransportError("connection refused"), ReadError(StatusOK),
     Answer(StatusNotFound, Body("array", Coll(1, "plain"))),
     Answer(StatusInternalServerError, Body("garbage", <<>>))}
    \cup {Answer(StatusOK, b) : b \in OddBodies}
    \cup {Answer(StatusOK, Body("array", Coll(n, v))) : n \in 0..2, v \in {"plain", "ragged"}}
    \cup {Answer(StatusOK, Body("array", <<NilItem>>))}

CommentBodies ==
    OddBodies \cup {Body("array", <<>>), Body("array", <<CommentItem(1), CommentItem(2)>>)}

CommentsReps ==
    {TransportError(t) : t \in {"connection refused", "context canceled"}}
    \cup {ReadError(StatusOK), ReadError(StatusInternalServerError)}
    \cup {Answer(status, b) :
             status \in {StatusOK, StatusCreated, StatusNotFound, StatusInternalServerError},
             b \in CommentBodies}

Init == InitSlots({1})

Next ==
    \E r \in Slots :
        \/ requestIDMiddleware(r, GatewayReqs, Rands)
        \/ handleNews(r)
        \/ handleFullNews(r)
        \/ handleComments(r)
        \/ handleAddComment(r)
        \/ handleAddCommentBody(r)
        \/ handleNewsWithID(r)
        \/ handleNewsResponded(r, NewsReps)
        \/ handleNewsListed(r, NewsReps)
        \/ handleFullNewsResponded(r, NewsReps)
        \/ handleFullNewsListed(r, NewsReps)
        \/ handleNewsItemResponded(r, NewsReps)
        \/ handleNewsItemFetched(r, NewsReps)
        \/ handleNewsCommentsResponded(r, CommentsReps)
        \/ handleNewsCommentsFetched(r, CommentsReps)
        \/ handleAddCommentResponded(r, CommentsReps)
        \/ handleAddCommentSent(r, CommentsReps)
        \/ handleCommentsResponded(r, CommentsReps)
        \/ handleCommentsFetched(r, CommentsReps)
        \/ handleNewsWithIDResponded(r, NewsReps)
        \/ handleNewsWithIDFetched(r, NewsReps)
        \/ Finish(r)

\* The whole gateway, one request at a time.
Spec == Init /\ [][Next]_vars

\* The cancellation specification's inputs: the gateway's, with the backend
\* calls also ending the way a cancelled context makes them end.
CancelNewsReps == NewsReps \cup {TransportError("context canceled")}
CancelCommentsReps ==
    CommentsReps \cup {ReadError(status) : status \in {StatusCreated, StatusNotFound}}

InitCancel == InitSlots({1})

NextCancel ==
    \E r \in Slots :
        \/ requestIDMiddleware(r, GatewayReqs, Rands)
        \/ handleNews(r)
        \/ handleFullNews(r)
        \/ handleComments(r)
        \/ handleAddComment(r)
        \/ handleAddCommentBody(r)
        \/ handleNewsWithID(r)
        \/ handleNewsResponded(r, CancelNewsReps)
        \/ handleNewsListed(r, CancelNewsReps)
        \/ handleFullNewsResponded(r, CancelNewsReps)
        \/ handleFullNewsListed(r, CancelNewsReps)
        \/ handleNewsItemResponded(r, CancelNewsReps)
        \/ handleNewsItemFetched(r, CancelNewsReps)
        \/ handleNewsCommentsResponded(r, CancelCommentsReps)
        \/ handleNewsCommentsFetched(r, CancelCommentsReps)
        \/ handleAddCommentResponded(r, CancelCommentsReps)
        \/ handleAddCommentSent(r, CancelCommentsReps)
        \/ handleCommentsResponded(r, CancelCommentsReps)
        \/ handleCommentsFetched(r, CancelCommentsReps)
        \/ handleNewsWithIDResponded(r, CancelNewsReps)
        \/ handleNewsWithIDFetched(r, CancelNewsReps)
        \/ Cancel(r)
        \/ Finish(r)

\* The whole gateway, one request at a time, with the client free to go away
\* at any moment of a request.
SpecCancel == InitCancel /\ [][NextCancel]_vars

\* The concurrent specification's inputs: a request of every flow, with a
\* supplied or a generated request id, and a failure and a success of either
\* backend.
ConcurrentReqs ==
    {Request("GET", "/api/news", <<>>,
             Query(S_r1, <<>>, <<>>, <<>>, <<>>, <<>>, <<>>, <<>>), NoReqBody),
     Request("GET", "/api/fullnews", <<>>,
             Query(S_x, <<>>, <<>>, <<>>, <<>>, S_eL, <<>>, <<>>), NoReqBody),
     Request("GET", "/api/news", <<>>,
             Query(S_abc, S_5, <<>>, <<>>, <<>>, <<>>, <<>>, <<>>), NoReqBody),
     Request("GET", "/api/news/", S_2,
             Query(S_zz, <<>>, <<>>, <<>>, <<>>, <<>>, <<>>, <<>>), NoReqBody),
     Request("GET", "/api/comments", <<>>,
             Query(<<>>, <<>>, <<>>, <<>>, <<>>, <<>>, <<>>, S_3), NoReqBody),
     Request("POST", "/api/comments/add", <<>>,
             Query(S_odd, <<>>, <<>>, <<>>, <<>>, <<>>, S_5, <<>>),
             ReqBody("object", JStr(S_hi)))}

ConcurrentNewsReps ==
    {TransportError("connection refused"),
     Answer(StatusOK, Body("array", Coll(2, "plain")))}

ConcurrentReps ==
    {TransportError(t) : t \in {"connection refused", "context canceled"}}
    \cup {Answer(StatusOK, Body("array", <<CommentItem(1)>>))}

\* crypto/rand failing, and giving bytes.
ConcurrentRands == {rnd \in Rands : rnd.err \/ rnd.bytes[1] # 0}

InitConcurrent == InitSlots(Slots)

NextConcurrent ==
    \E r \in Slots :
        \/ requestIDMiddleware(r, ConcurrentReqs, ConcurrentRands)
        \/ handleNews(r)
        \/ handleFullNews(r)
        \/ handleComments(r)
        \/ handleAddComment(r)
        \/ handleAddCommentBody(r)
        \/ handleNewsWithID(r)
        \/ handleNewsResponded(r, ConcurrentNewsReps)
        \/ handleNewsListed(r, ConcurrentNewsReps)
        \/ handleFullNewsResponded(r, ConcurrentNewsReps)
        \/ handleFullNewsListed(r, ConcurrentNewsReps)
        \/ handleNewsItemResponded(r, ConcurrentNewsReps)
        \/ handleNewsItemFetched(r, ConcurrentNewsReps)
        \/ handleNewsCommentsResponded(r, ConcurrentReps)
        \/ handleNewsCommentsFetched(r, ConcurrentReps)
        \/ handleAddCommentResponded(r, ConcurrentReps)
        \/ handleAddCommentSent(r, ConcurrentReps)
        \/ handleCommentsResponded(r, ConcurrentReps)
        \/ handleCommentsFetched(r, ConcurrentReps)
        \/ handleNewsWithIDResponded(r, ConcurrentNewsReps)
        \/ handleNewsWithIDFetched(r, ConcurrentNewsReps)
        \/ Finish(r)

\* Every slot serving a request at the same time, their steps interleaved in
\* every order.
SpecConcurrent == InitConcurrent /\ [][NextConcurrent]_vars

(***************************************************************************)
(* Properties: the vocabulary they are stated in.                          *)
(***************************************************************************)
Min(a, b) == IF a <= b THEN a ELSE b
Max(a, b) == IF a >= b THEN a ELSE b

\* min(w, k) as a natural number, for a machine integer w >= 0.
Clamp(w, k) == IF IsSmall(w) /\ ToNat(w) <= k THEN ToNat(w) ELSE k

\* The least n with n * c >= t, for c >= 1.
Ceiling(t, c) == CHOOSE n \in 0..t : n * c >= t /\ \A m \in 0..(n - 1) : m * c < t

Active(r) == pc[r] \notin {"off", "idle"}
Answered(r) == pc[r] = "done"

\* The request went through the middleware and its handler has run.
Handled(r) == Active(r) /\ pc[r] \notin {"handler", "readBody"} /\ ctx[r].requestID # <<>>

IsListing(r) ==
    \/ req[r].path = "/api/fullnews"
    \/ req[r].path = "/api/news" /\ req[r].q.comm = <<>>

IsComposite(r) == req[r].path = "/api/news" /\ req[r].q.comm # <<>>

IsAddComment(r) == req[r].path = "/api/comments/add"

\* A listing request that has been answered after its fetch returned.
ListingAnswered(r) == Answered(r) /\ IsListing(r) /\ Len(got[r]) = 1

\* The canonical empty envelope for the effective page and count.
IsEmptyEnvelope(rs, page, count) ==
    /\ rs.status = 200
    /\ rs.kind = "envelope"
    /\ rs.items = <<>>
    /\ rs.total_items = Zero
    /\ rs.total_pages = Zero
    /\ rs.current_page = page
    /\ rs.items_per_page = count

\* The reply is a 200 whose body was read and is a JSON array of records, or
\* JSON null.
Decoded(rep) ==
    ~rep.err /\ rep.status = 200 /\ ~rep.readErr /\ rep.body.kind \in {"array", "null"}

\* The reply is a 200 with a body that is read, is not empty and is no array of
\* records.
Undecodable(rep) ==
    /\ ~rep.err /\ rep.status = 200 /\ ~rep.readErr
    /\ rep.body.kind \in {"garbage", "object", "badarray"}

\* The collection a decoded reply carries.
Upstream(rep) == IF rep.body.kind = "array" THEN rep.body.items ELSE <<>>

\* A listing request answered with an envelope.
EnvelopeShown(r) == Answered(r) /\ IsListing(r) /\ resp[r].kind = "envelope"

\* (page - 1) * count of an envelope in true arithmetic, capped at
\* total_items squared: it is below total_items exactly when the true
\* product is, and then equals it.
StartOf(rs) ==
    LET t == ToNat(rs.total_items)
    IN  Clamp(WrapSub(rs.current_page, One), t) * Clamp(rs.items_per_page, t)

\* min(count, total - (page - 1) * count) of an envelope whose page is in range.
PageSize(rs) ==
    LET t == ToNat(rs.total_items)
    IN  Min(Clamp(rs.items_per_page, t), t - StartOf(rs))

InRange(rs) == rs.total_items # Zero /\ StartOf(rs) < ToNat(rs.total_items)

\* The records of the filtered collection that the page covers.
Window(r) ==
    SubSeq(loc[r].filteredNews, StartOf(resp[r]) + 1, StartOf(resp[r]) + PageSize(resp[r]))

NumericIDs(items) == Cardinality({i \in 1..Len(items) : items[i].id.t = "num"})

\* An optionally signed run of decimal digits.
IsNumeral(s) ==
    LET digits == IF Len(s) > 0 /\ s[1] \in {"+", "-"} THEN Tail(s) ELSE s
    IN  Len(digits) > 0 /\ \A i \in 1..Len(digits) : IsDigit(digits[i])

\* A numeral that denotes zero or a negative number.
NonPositive(s) ==
    IsNumeral(s) /\ (s[1] = "-" \/ \A i \in 1..Len(s) : s[i] \in {"0", "+"})

\* A page or count parameter that is missing, non-numeric or non-positive.
Defaulted(s) == s = <<>> \/ ~IsNumeral(s) \/ NonPositive(s)

\* The record has a string title that contains term, whatever the case.
TitleMatches(item, term) ==
    /\ item.title.t = "str"
    /\ LET t == ToLower(item.title.s)
           w == ToLower(term)
       IN  \E k \in 0..(Len(t) - Len(w)) : \A j \in 1..Len(w) : t[k + j] = w[j]

\* The k-th smallest member of a set of numbers.
Nth(S, k) == CHOOSE i \in S : Cardinality({j \in S : j < i}) = k - 1

\* The records of all that match term, in their order; all of them when term
\* is empty.
Selected(all, term) ==
    LET kept == {i \in 1..Len(all) : TitleMatches(all[i], term)}
    IN  IF term = <<>> THEN all
        ELSE [k \in 1..Cardinality(kept) |-> all[Nth(kept, k)]]

\* Reading a query string back, as the backend does (url.ParseQuery).
IsHexChar(c) == \E k \in 1..16 : HexTable[k] = c \/ UpperHex[k] = c
HexVal(c) == (CHOOSE k \in 1..16 : HexTable[k] = c \/ UpperHex[k] = c) - 1

\* The character an escape %XY stands for.
Unescaped(x, y) ==
    LET hits == {k \in 1..Len(Escaped) :
                    /\ IsHexChar(x) /\ IsHexChar(y)
                    /\ Escaped[k].code = 16 * HexVal(x) + HexVal(y)}
    IN  IF hits = {} THEN "?" ELSE Escaped[CHOOSE k \in hits : TRUE].c

RECURSIVE QueryUnescape(_)
QueryUnescape(s) ==
    IF s = <<>> THEN <<>>
    ELSE IF s[1] = "+" THEN <<" ">> \o QueryUnescape(Tail(s))
    ELSE IF s[1] = "%" /\ Len(s) >= 3
    THEN <<Unescaped(s[2], s[3])>> \o QueryUnescape(SubSeq(s, 4, Len(s)))
    ELSE <<s[1]>> \o QueryUnescape(Tail(s))

\* The positions around the "&"-separated segments of a query string.
Seps(raw) == {0, Len(raw) + 1} \cup {i \in 1..Len(raw) : raw[i] = "&"}
NextSep(raw, a) == CHOOSE b \in Seps(raw) : b > a /\ \A c \in Seps(raw) : ~(a < c /\ c < b)
Segment(raw, a) == SubSeq(raw, a + 1, NextSep(raw, a) - 1)
EqAt(seg) ==
    IF \E i \in 1..Len(seg) : seg[i] = "="
    THEN CHOOSE i \in 1..Len(seg) : seg[i] = "=" /\ \A j \in 1..(i - 1) : seg[j] # "="
    ELSE Len(seg) + 1
KeyOf(seg) == QueryUnescape(SubSeq(seg, 1, EqAt(seg) - 1))
ValueOf(seg) == QueryUnescape(SubSeq(seg, EqAt(seg) + 1, Len(seg)))

\* url.Values.Get(key) of the parsed query: the first value under key.
QueryGet(raw, key) ==
    LET hits == {a \in Seps(raw) \ {Len(raw) + 1} : KeyOf(Segment(raw, a)) = key}
    IN  IF hits = {} THEN <<>>
        ELSE ValueOf(Segment(raw, CHOOSE a \in hits : \A b \in hits : a <= b))

\* Every backend call sent for the request carries id as its request_id.
CallsCarry(r, id) ==
    \A k \in 1..Len(out[r]) : QueryGet(out[r][k].rawQuery, RequestIDParam) = id

IsHex8(s) == Len(s) = 8 /\ \A i \in 1..8 : IsHexChar(s[i])

\* The news id an add-comment request names: news_id, else id.
NamedNewsID(rq) == IF rq.q.news_id # <<>> THEN rq.q.news_id ELSE rq.q.id

\* The text an add-comment body carries, <<>> if none.
TextOf(b) == IF b.kind = "object" /\ b.text.t = "str" THEN b.text.s ELSE <<>>

\* An add-comment request that fails one of the handler's checks.
Invalid(rq) ==
    \/ NamedNewsID(rq) = <<>>
    \/ ~IsNumeral(NamedNewsID(rq))
    \/ rq.body.kind \in {"empty", "garbage"}
    \/ TextOf(rq.body) = <<>>

(***************************************************************************)
(* The listing endpoints when the fetch of the collection fails.           *)
(***************************************************************************)
\* C1, as stated: whenever a listing endpoint cannot obtain the upstream
\* collection (transport failure, non-200 status, unreadable or empty body,
\* or a body that does not decode) it answers 200 with the canonical empty
\* envelope for the effective page and count, never an error status.
C1_FetchFailureGivesEmptyEnvelope ==
    \A r \in Slots :
        ListingAnswered(r) =>
            LET rep == got[r][1]
            IN  (\/ rep.err
                 \/ rep.status # 200
                 \/ rep.readErr
                 \/ rep.body.kind = "empty"
                 \/ Undecodable(rep))
                => IsEmptyEnvelope(resp[r], loc[r].page, loc[r].count)

\* C1, amended: a non-200 status, an unreadable or empty body, or a body that
\* does not decode gives the canonical empty envelope with status 200; a
\* transport failure gives status 500 with a JSON error body.
C1_DegradesExceptOnTransportFailure ==
    \A r \in Slots :
        ListingAnswered(r) =>
            LET rep == got[r][1]
            IN  /\ (/\ ~rep.err
                    /\ \/ rep.status # 200
                       \/ rep.readErr
                       \/ rep.body.kind = "empty"
                       \/ Undecodable(rep))
                   => IsEmptyEnvelope(resp[r], loc[r].page, loc[r].count)
                /\ rep.err => resp[r].status = 500 /\ resp[r].kind = "error"

\* A listing request whose fetch came back 404 was answered with the empty
\* envelope.
C1_Witness ==
    \E r \in Slots :
        /\ ListingAnswered(r)
        /\ ~got[r][1].err
        /\ got[r][1].status = 404
        /\ IsEmptyEnvelope(resp[r], loc[r].page, loc[r].count)

(***************************************************************************)
(* The composite endpoint.                                                 *)
(***************************************************************************)
\* The news call of a composite request returned 200 with a non-empty array.
NewsFetched(r) ==
    /\ IsComposite(r)
    /\ Len(got[r]) >= 1
    /\ Decoded(got[r][1])
    /\ Len(Upstream(got[r][1])) >= 1

\* C2: once the news item of a composite request has been fetched (200,
\* non-empty array), the response is 200 and carries that news item, whatever
\* the comments call does: transport failure, read failure or malformed JSON.
C2_CommentsFailureKeepsNews ==
    \A r \in Slots :
        Answered(r) /\ NewsFetched(r) =>
            /\ Len(got[r]) = 2
            /\ resp[r].status = 200
            /\ resp[r].kind = "composite"
            /\ resp[r].news = got[r][1].body.items[1]
            /\ (got[r][2].err \/ got[r][2].readErr \/ got[r][2].body.kind = "garbage")
               => resp[r].comments = <<>>

\* A composite request whose comments call failed in transport was answered
\* 200 with the news item.
C2_Witness ==
    \E r \in Slots :
        /\ Answered(r) /\ NewsFetched(r)
        /\ Len(got[r]) = 2
        /\ got[r][2].err
        /\ resp[r].status = 200
        /\ resp[r].news = got[r][1].body.items[1]

(***************************************************************************)
(* The request id.                                                         *)
(***************************************************************************)
\* C3, as stated: every response carries an X-Request-ID header; a non-empty
\* request_id query parameter is echoed in it verbatim and sent as request_id
\* on every backend call made for the request; otherwise an id of 8 hex
\* characters is generated and used the same way.
C3_RequestIDEverywhere ==
    \A r \in Slots :
        Active(r) =>
            LET supplied == req[r].q.request_id
            IN  /\ supplied # <<>> => hdr[r] = supplied
                /\ supplied = <<>> => IsHex8(hdr[r])
                /\ CallsCarry(r, hdr[r])

\* The random source failed while an id was being generated: the response is
\* a 500 without the header, and no backend call was made.
GenerationFailed(r) ==
    /\ req[r].q.request_id = <<>>
    /\ hdr[r] = <<>>
    /\ Answered(r)
    /\ resp[r].status = 500
    /\ out[r] = <<>>

\* C3, amended: a non-empty request_id query parameter is echoed verbatim in
\* X-Request-ID and sent as request_id on every backend call made for the
\* request; without one an id of 8 hex characters is generated and used the
\* same way, unless the random source fails, and then the response is a 500
\* without the header and no backend call is made.
C3_RequestIDUnlessGenerationFails ==
    \A r \in Slots :
        Active(r) =>
            LET supplied == req[r].q.request_id
            IN  /\ supplied # <<>> => hdr[r] = supplied
                /\ supplied = <<>> => IsHex8(hdr[r]) \/ GenerationFailed(r)
                /\ CallsCarry(r, hdr[r])

\* A composite request with a request_id that needs escaping made both of
\* its backend calls.
C3_Witness ==
    \E r \in Slots :
        /\ req[r].q.request_id = S_odd
        /\ hdr[r] = S_odd
        /\ Len(out[r]) = 2
        /\ CallsCarry(r, S_odd)

(***************************************************************************)
(* Pagination.                                                             *)
(***************************************************************************)
\* C4, as stated: a paginated response whose page is in range has exactly
\* min(count, total_items - (page - 1) * count) items, whatever fields the
\* upstream records carry.
C4_ItemCountIsPageSize ==
    \A r \in Slots :
        EnvelopeShown(r) /\ InRange(resp[r]) => Len(resp[r].items) = PageSize(resp[r])

\* C4, amended: a paginated response whose page is in range has one item for
\* each record with a numeric id among the min(count, total_items -
\* (page - 1) * count) records of the page: at most that many, and exactly
\* that many when every record of the page has a numeric id.
C4_ItemCountIsNumericIdsOfPage ==
    \A r \in Slots :
        EnvelopeShown(r) /\ InRange(resp[r]) =>
            /\ Len(resp[r].items) = NumericIDs(Window(r))
            /\ Len(resp[r].items) <= PageSize(resp[r])

\* A page in range was answered with fewer items than the page has records.
C4_Witness ==
    \E r \in Slots :
        /\ EnvelopeShown(r) /\ InRange(resp[r])
        /\ Len(resp[r].items) > 0
        /\ Len(resp[r].items) < PageSize(resp[r])

\* Twelve records upstream, page=2, count=5, no search term.
TwelveByFive(r) ==
    /\ ListingAnswered(r)
    /\ got[r][1] = Answer(200, Body("array", Coll(12, "plain")))
    /\ req[r].q.page = S_2 /\ req[r].q.count = S_5 /\ req[r].q.s = <<>>

\* C5: total_pages equals the ceiling of total_items / count for the
\* effective count, and 0 when there are no items; with 12 records, page=2
\* and count=5 the response has total_pages 3, current_page 2 and the records
\* at positions 5 to 9 (0-based).
C5_TotalPagesIsCeiling ==
    \A r \in Slots :
        /\ EnvelopeShown(r) =>
              LET t == ToNat(resp[r].total_items)
              IN  resp[r].total_pages =
                      FromNat(IF t = 0 THEN 0
                              ELSE Ceiling(t, Clamp(resp[r].items_per_page, t)))
        /\ TwelveByFive(r) =>
              /\ resp[r].total_pages = FromNat(3)
              /\ resp[r].current_page = FromNat(2)
              /\ Len(resp[r].items) = 5
              /\ \A k \in 1..5 : resp[r].items[k].ID = 5 + k

\* C6: a page that starts at or beyond the end of the filtered collection, or
\* an empty filtered collection, gives the canonical empty envelope with
\* status 200.
C6_BeyondRangeGivesEmptyEnvelope ==
    \A r \in Slots :
        ListingAnswered(r) /\ Decoded(got[r][1]) =>
            LET t == Len(Selected(Upstream(got[r][1]), req[r].q.s))
                start == Clamp(WrapSub(loc[r].page, One), t) * Clamp(loc[r].count, t)
            IN  start >= t => IsEmptyEnvelope(resp[r], loc[r].page, loc[r].count)

\* C7: on the listing endpoints a missing, non-numeric or non-positive page
\* falls back to 1 and such a count to 10; the effective values are always at
\* least 1, the request is never answered with a client error because of
\* them, and the fetch is made all the same.
C7_PageAndCountAreLenient ==
    \A r \in Slots :
        Handled(r) /\ IsListing(r) /\ req[r].method = "GET" =>
            /\ Len(out[r]) = 1
            /\ Defaulted(req[r].q.page) => loc[r].page = FromNat(1)
            /\ Defaulted(req[r].q.count) => loc[r].count = FromNat(10)
            /\ Less(Zero, loc[r].page) /\ Less(Zero, loc[r].count)
            /\ resp[r].status \notin 400..499
            /\ resp[r].kind = "envelope" =>
                  /\ resp[r].current_page = loc[r].page
                  /\ resp[r].items_per_page = loc[r].count

\* page=0 and count=-5 were answered with the first page of ten.
C7_Witness ==
    \E r \in Slots :
        /\ EnvelopeShown(r)
        /\ req[r].q.page = S_0 /\ req[r].q.count = S_m5
        /\ resp[r].current_page = FromNat(1)
        /\ resp[r].items_per_page = FromNat(10)
        /\ Len(resp[r].items) = 10

\* C8: a non-empty s keeps exactly the records with a string title that
\* contains s case-insensitively, in their order; an empty s keeps the whole
\* collection; the handler's total_items counts this filtered collection, and
\* so does the total_items of every envelope that has items.
C8_FilterIsCaseInsensitiveTitleMatch ==
    \A r \in Slots :
        ListingAnswered(r) /\ Decoded(got[r][1]) =>
            /\ loc[r].filteredNews = Selected(Upstream(got[r][1]), req[r].q.s)
            /\ loc[r].totalItems = FromNat(Len(loc[r].filteredNews))
            /\ (resp[r].kind = "envelope" /\ resp[r].items # <<>>)
               => resp[r].total_items = FromNat(Len(loc[r].filteredNews))

\* A search for "eL" kept some records of the collection and dropped others.
C8_Witness ==
    \E r \in Slots :
        /\ ListingAnswered(r) /\ Decoded(got[r][1])
        /\ req[r].q.s = S_eL
        /\ Len(loc[r].filteredNews) > 0
        /\ Len(loc[r].filteredNews) < Len(Upstream(got[r][1]))
        /\ resp[r].items # <<>>
        /\ resp[r].total_items = FromNat(Len(loc[r].filteredNews))

\* C9, as stated: in the composite flow a transport failure of the news call
\* gives 500; a non-200 news status is relayed with a "not found" message; a
\* 200 whose body decodes to an empty array, or does not decode to an array
\* at all, gives 404; in each case the comments call is never made.
C9_PrimaryOutcomeMapping ==
    \A r \in Slots :
        Answered(r) /\ IsComposite(r) /\ Len(got[r]) >= 1 =>
            LET rep == got[r][1]
            IN  /\ rep.err => resp[r].status = 500 /\ Len(out[r]) = 1
                /\ (~rep.err /\ rep.status # 200)
                   => /\ resp[r].status = rep.status
                      /\ resp[r].error = "news item not found"
                      /\ Len(out[r]) = 1
                /\ (~rep.err /\ rep.status = 200 /\ ~rep.readErr /\ ~NewsFetched(r))
                   => resp[r].status = 404 /\ Len(out[r]) = 1

\* C9, amended: a transport failure of the news call gives 500; a non-200
\* news status is relayed with a "not found" message; a 200 whose body
\* decodes to an empty array (or is JSON null) gives 404; a 200 whose body
\* cannot be read or does not decode to an array of objects gives 500; in
\* each case the comments call is never made.
C9_PrimaryOutcomeMappingWithDecodeFailure ==
    \A r \in Slots :
        Answered(r) /\ IsComposite(r) /\ Len(got[r]) >= 1 =>
            LET rep == got[r][1]
            IN  /\ rep.err => resp[r].status = 500 /\ Len(out[r]) = 1
                /\ (~rep.err /\ rep.status # 200)
                   => /\ resp[r].status = rep.status
                      /\ resp[r].error = "news item not found"
                      /\ Len(out[r]) = 1
                /\ (Decoded(rep) /\ Upstream(rep) = <<>>)
                   => resp[r].status = 404 /\ Len(out[r]) = 1
                /\ (~rep.err /\ rep.status = 200 /\ (rep.readErr \/ ~Decoded(rep)))
                   => resp[r].status = 500 /\ Len(out[r]) = 1

\* A composite request whose news call returned an empty array was answered
\* 404 without a comments call.
C9_Witness ==
    \E r \in Slots :
        /\ Answered(r) /\ IsComposite(r) /\ Len(got[r]) = 1
        /\ Decoded(got[r][1]) /\ got[r][1].body.kind = "array"
        /\ Upstream(got[r][1]) = <<>>
        /\ resp[r].status = 404
        /\ Len(out[r]) = 1

(***************************************************************************)
(* Adding a comment.                                                       *)
(***************************************************************************)
\* C10: the add-comment endpoint answers 405 to any method other than POST
\* and 400 to a request whose news id (news_id, else id) is missing or not an
\* integer, whose body is absent or not valid JSON, or whose text is empty;
\* no backend call is made unless all of these checks pass.
C10_AddCommentValidation ==
    \A r \in Slots :
        Handled(r) /\ IsAddComment(r) =>
            /\ req[r].method # "POST" => resp[r].status = 405 /\ out[r] = <<>>
            /\ (req[r].method = "POST" /\ Invalid(req[r]))
               => resp[r].status = 400 /\ out[r] = <<>>
            /\ out[r] # <<>> => req[r].method = "POST" /\ ~Invalid(req[r])

\* A POST with a valid news id and a JSON body whose text is empty was
\* answered 400 without a backend call.
C10_Witness ==
    \E r \in Slots :
        /\ Handled(r) /\ IsAddComment(r)
        /\ req[r].method = "POST"
        /\ NamedNewsID(req[r]) = S_5
        /\ req[r].body = ReqBody("object", JStr(<<>>))
        /\ resp[r].status = 400
        /\ out[r] = <<>>

(***************************************************************************)
(* The comment flows.                                                      *)
(***************************************************************************)
\* An add-comment request whose backend call was answered 200 or 201 with a
\* body that was read.
AddSucceeded(r) ==
    /\ Answered(r) /\ IsAddComment(r) /\ Len(got[r]) = 1
    /\ ~got[r][1].err /\ ~got[r][1].readErr
    /\ got[r][1].status \in {200, 201}

\* C11: when the comments backend answers an add-comment call with 200 or
\* 201, the response carries the backend's body byte for byte and the
\* backend's status code: 200 for 200, 201 for 201.
C11_SuccessRelayedVerbatim ==
    \A r \in Slots :
        AddSucceeded(r) =>
            /\ resp[r].kind = "raw"
            /\ resp[r].raw = got[r][1].body
            /\ resp[r].status = got[r][1].status

IsCommentFlow(r) == req[r].path \in {"/api/comments", "/api/comments/add"}

\* The body of a response.
BodyOf(rs) == [kind |-> rs.kind, error |-> rs.error, detail |-> rs.detail, raw |-> rs.raw]

\* The statuses a comment flow takes for success.
SuccessOf(path) == IF path = "/api/comments/add" THEN {200, 201} ELSE {200}

\* Two backend replies that differ at most in the upstream error detail: the
\* text of a transport error, or the body of a non-success reply.
SameButDetail(path, a, b) ==
    \/ a.err /\ b.err
    \/ /\ ~a.err /\ ~b.err
       /\ a.status = b.status
       /\ a.status \notin SuccessOf(path)

\* C12: in the comment write and read flows the body of a failure response
\* does not depend on backend internals: two runs of the same request whose
\* backend replies differ only in the error detail get the same response
\* body, and the status is the relayed non-success status, else 500.
C12_FailureBodyIsGeneric ==
    \A a, b \in Slots :
        (/\ Answered(a) /\ Answered(b)
         /\ IsCommentFlow(a)
         /\ req[a] = req[b]
         /\ Len(got[a]) = 1 /\ Len(got[b]) = 1
         /\ SameButDetail(req[a].path, got[a][1], got[b][1]))
        => /\ BodyOf(resp[a]) = BodyOf(resp[b])
           /\ resp[a].status = resp[b].status
           /\ resp[a].status = IF got[a][1].err THEN 500 ELSE got[a][1].status

IsCommentRead(r) == req[r].path = "/api/comments"

\* The body is a JSON document.
IsJSON(b) == b.kind \in {"null", "object", "array", "badarray"}

\* C13: the comment read flow rejects a request that is not GET, answers 400
\* without a backend call when the id is missing or not numeric, and when the
\* comments backend answers 200 with a body that is valid JSON the response
\* is 200 with exactly the bytes of that body.
C13_CommentReadFlow ==
    \A r \in Slots :
        Handled(r) /\ IsCommentRead(r) =>
            /\ req[r].method # "GET" => resp[r].status = 405 /\ out[r] = <<>>
            /\ (req[r].method = "GET" /\ ~IsNumeral(req[r].q.id))
               => resp[r].status = 400 /\ out[r] = <<>>
            /\ (/\ Answered(r) /\ Len(got[r]) = 1
                /\ ~got[r][1].err /\ ~got[r][1].readErr
                /\ got[r][1].status = 200
                /\ IsJSON(got[r][1].body))
               => /\ resp[r].status = 200
                  /\ resp[r].kind = "raw"
                  /\ resp[r].raw = got[r][1].body

\* A comment read whose backend call returned 200 with a JSON object was
\* answered 200 with that body.
C13_Witness ==
    \E r \in Slots :
        /\ Answered(r) /\ IsCommentRead(r) /\ Len(got[r]) = 1
        /\ got[r][1] = Answer(200, Body("object", <<>>))
        /\ resp[r].status = 200
        /\ resp[r].raw = got[r][1].body

(***************************************************************************)
(* Cancellation, ordering and isolation.                                   *)
(***************************************************************************)
\* C14: every request is served under a context derived from the inbound
\* request's, every backend call of every flow is sent under the context of
\* the request that makes it, and so, the transport ending a call with its
\* context, a call that returns after the inbound request was cancelled
\* returns aborted (with a transport error, or with the read of its body
\* failing), never successfully.
C14_CallsEndWithTheRequest ==
    /\ [](\A r \in Slots :
             Active(r) =>
                 /\ ctx[r].root = InboundContext.root
                 /\ \A k \in 1..Len(out[r]) : out[r][k].ctx = ctx[r].root)
    /\ [][\A r \in Slots :
             (cancelled[r] /\ Len(got'[r]) > Len(got[r]))
             => Aborted(got'[r][Len(got'[r])])]_vars

\* A composite request was cancelled while its comments call was in flight:
\* the news call had returned whole, the comments call ended with an error.
C14_Witness ==
    \E r \in Slots :
        /\ cancelled[r]
        /\ Answered(r) /\ IsComposite(r)
        /\ Len(out[r]) = 2 /\ Len(got[r]) = 2
        /\ ~Aborted(got[r][1])
        /\ got[r][2].err

\* The number of calls the request has made to a backend.
CallsTo(r, svc) == Cardinality({k \in 1..Len(out[r]) : out[r][k].svc = svc})

\* The reply of a call that failed.
Failed(rep) == rep.err \/ rep.readErr \/ rep.status # 200

\* C15: nothing is retried and the calls are ordered: a request calls each
\* backend at most once and one call at a time; the composite flow calls the
\* news backend first and the comments backend only after the news call has
\* returned 200 with a non-empty array; a failed call is followed by the
\* response, never by another call.
C15_NoRetryAndOrder ==
    \A r \in Slots :
        Active(r) =>
            /\ CallsTo(r, "news") <= 1
            /\ CallsTo(r, "comments") <= 1
            /\ Len(got[r]) <= Len(out[r])
            /\ Len(out[r]) <= Len(got[r]) + 1
            /\ (IsComposite(r) /\ Len(out[r]) >= 1) => out[r][1].svc = "news"
            /\ (IsComposite(r) /\ Len(out[r]) = 2)
               => out[r][2].svc = "comments" /\ NewsFetched(r)
            /\ \A k \in 1..Len(got[r]) :
                  Failed(got[r][k]) => Answered(r) /\ Len(out[r]) = k

\* A composite request made its news call and then its comments call, which
\* failed, and was answered.
C15_Witness ==
    \E r \in Slots :
        /\ IsComposite(r) /\ Answered(r)
        /\ Len(out[r]) = 2 /\ Len(got[r]) = 2
        /\ out[r][1].svc = "news" /\ out[r][2].svc = "comments"
        /\ got[r][2].err
        /\ resp[r].status = 200

\* The comments call failed: in transport, in the read of the body, by its
\* status, or by a body that is no JSON array.
CommentsFailed(rep) ==
    \/ rep.err
    \/ rep.readErr
    \/ rep.status # 200
    \/ rep.body.kind \notin {"array", "badarray"}

\* C16: in the composite flow, whenever the comments call fails in any way,
\* a non-200 status included, the 200 response carries the empty array as
\* comments; the comments are upstream data only when the comments backend
\* answered 200 with a body that decodes to an array.
C16_CommentsOnlyFromSuccess ==
    \A r \in Slots :
        (Answered(r) /\ NewsFetched(r) /\ Len(got[r]) = 2) =>
            /\ CommentsFailed(got[r][2])
               => resp[r].status = 200 /\ resp[r].comments = <<>>
            /\ resp[r].comments # <<>> => ~CommentsFailed(got[r][2])

\* Everything the server holds for the request of slot r.
SlotState(r) ==
    <<pc[r], req[r], hdr[r], ctx[r], loc[r], out[r], got[r], head[r], resp[r], cancelled[r]>>

\* The request id a request is known by: the one it supplies, else eight
\* hexadecimal digits made for it.
OwnID(rq, id) ==
    IF rq.q.request_id # <<>> THEN id = rq.q.request_id ELSE IsHex8(id)

\* A numeral written the one way strconv.Itoa writes it.
Canonical(s) == IsNumeral(s) /\ s[1] \notin {"+", "-"} /\ (s[1] = "0" => Len(s) = 1)

\* The news id a request names, <<>> for a listing request.
OwnTarget(rq) ==
    CASE rq.path = "/api/news/" -> rq.rest
      [] rq.path = "/api/news" -> rq.q.comm
      [] rq.path = "/api/comments" -> rq.q.id
      [] rq.path = "/api/comments/add" -> NamedNewsID(rq)
      [] OTHER -> <<>>

\* The news id a backend call names, in its path or under "id" in its query.
TargetOf(call) ==
    IF call.arg # <<>> THEN call.arg ELSE QueryGet(call.rawQuery, <<"i", "d">>)

\* The records of a sequence whose id is a JSON number, in their order.
WithNumericID(items) ==
    LET kept == {i \in 1..Len(items) : items[i].id.t = "num"}
    IN  [k \in 1..Cardinality(kept) |-> items[Nth(kept, k)]]

\* The response rs is the one a listing request that names no page and no
\* count gets from the single reply in reps when it is served alone: the
\* first ten records of the matching ones, or the empty envelope.
SoloListing(rq, reps, rs) ==
    IF reps = <<>> THEN rs.status = 405 /\ rs.kind = "text" /\ rq.method # "GET"
    ELSE LET rep == reps[1]
             sel == Selected(Upstream(rep), rq.q.s)
             n == Len(sel)
             shown == WithNumericID(SubSeq(sel, 1, Min(10, n)))
         IN  IF rep.err THEN rs.status = 500 /\ rs.kind = "error"
             ELSE IF ~Decoded(rep) \/ n = 0
             THEN IsEmptyEnvelope(rs, FromNat(1), FromNat(10))
             ELSE /\ rs.status = 200 /\ rs.kind = "envelope"
                  /\ rs.total_items = FromNat(n)
                  /\ rs.total_pages = FromNat(Ceiling(n, 10))
                  /\ rs.current_page = FromNat(1)
                  /\ rs.items_per_page = FromNat(10)
                  /\ Len(rs.items) = Len(shown)
                  /\ \A k \in 1..Len(shown) :
                        /\ rs.items[k].ID = shown[k].id.n
                        /\ shown[k].title.t = "str" => rs.items[k].Title = shown[k].title.s

\* The response a request for one news item gets from the news reply when it
\* is served alone, short of the 200: [done, status].
SoloItem(rep) ==
    IF rep.err THEN [done |-> TRUE, status |-> 500]
    ELSE IF rep.status # 200 THEN [done |-> TRUE, status |-> rep.status]
    ELSE IF ~Decoded(rep) THEN [done |-> TRUE, status |-> 500]
    ELSE IF Upstream(rep) = <<>> THEN [done |-> TRUE, status |-> 404]
    ELSE [done |-> FALSE, status |-> 200]

\* The same for the composite flow: 400 without a call, the news call's
\* failure as it is, else 200 with the first record of the news reply and the
\* comments the comments reply carries, none when it carries none.
SoloComposite(rq, reps, rs) ==
    IF reps = <<>>
    THEN rs.status = 400 /\ (rq.q.m # <<>> \/ ~Canonical(rq.q.comm))
    ELSE IF SoloItem(reps[1]).done
    THEN rs.status = SoloItem(reps[1]).status /\ rs.kind = "error" /\ Len(reps) = 1
    ELSE /\ Len(reps) = 2
         /\ rs.status = 200 /\ rs.kind = "composite"
         /\ rs.news = Upstream(reps[1])[1]
         /\ rs.comments =
               IF \/ reps[2].err \/ reps[2].readErr
                  \/ reps[2].body.kind \notin {"array", "badarray"}
               THEN <<>> ELSE reps[2].body.items

\* The same for the request of one news item by its id.
SoloByID(rq, reps, rs) ==
    IF reps = <<>> THEN rs.status = 400 /\ ~Canonical(rq.rest)
    ELSE IF SoloItem(reps[1]).done THEN rs.status = SoloItem(reps[1]).status
    ELSE rs.status = 200 /\ rs.kind = "news" /\ rs.news = Upstream(reps[1])[1]

\* The same for the two comment flows: 405 or 400 without a call, 500 for a
\* call that did not come back, the backend's status when it is not a
\* success, else 200 with the backend's body.
SoloComment(rq, reps, rs) ==
    LET read == rq.path = "/api/comments"
        rep == reps[1]
    IN  IF reps = <<>>
        THEN \/ rs.status = 405 /\ rq.method # (IF read THEN "GET" ELSE "POST")
             \/ rs.status = 400 /\ (IF read THEN ~Canonical(rq.q.id) ELSE Invalid(rq))
        ELSE IF rep.err THEN rs.status = 500 /\ rs.kind = "error"
        ELSE IF rep.status \notin SuccessOf(rq.path)
        THEN rs.status = rep.status /\ rs.kind = "error"
        ELSE IF rep.readErr \/ (read /\ ~IsJSON(rep.body))
        THEN rs.status = 500 /\ rs.kind = "error"
        ELSE rs.status = 200 /\ rs.kind = "raw" /\ rs.raw = rep.body

\* The response of slot r is the one its request gets when served alone
\* with the replies it got.
AnsweredAsAlone(r) ==
    CASE IsListing(r) -> SoloListing(req[r], got[r], resp[r])
      [] IsComposite(r) -> SoloComposite(req[r], got[r], resp[r])
      [] req[r].path = "/api/news/" -> SoloByID(req[r], got[r], resp[r])
      [] IsCommentFlow(r) -> SoloComment(req[r], got[r], resp[r])

\* C17: with requests of every flow served concurrently and their steps
\* interleaved in any order: a request is known by its own request id, the
\* one its response header carries; every backend call carries the request id
\* and names the news id of the request that made it, never those of another
\* request in flight; a response is the one the request gets when served
\* alone with the same backend replies; and a step of one request changes
\* nothing of any other.
C17_RequestsAreIsolated ==
    /\ [](\A r \in Slots :
             Handled(r) =>
                 /\ OwnID(req[r], hdr[r])
                 /\ ctx[r].requestID = hdr[r]
                 /\ CallsCarry(r, hdr[r])
                 /\ \A k \in 1..Len(out[r]) :
                       /\ TargetOf(out[r][k]) = OwnTarget(req[r])
                       /\ \A b \in Slots :
                             hdr[b] # hdr[r] =>
                                 QueryGet(out[r][k].rawQuery, RequestIDParam) # hdr[b]
                 /\ Answered(r) => AnsweredAsAlone(r))
    /\ [][\E s \in Slots : \A r \in Slots \ {s} : SlotState(r)' = SlotState(r)]_vars

\* A composite request's comments call and a comment read's call were in
\* flight at the same time under different request ids, beside the news call
\* the composite request had already got back.
C17_Witness ==
    \E a, b \in Slots :
        /\ a # b
        /\ hdr[a] # hdr[b]
        /\ IsComposite(a) /\ Len(out[a]) = 2 /\ Len(got[a]) = 1
        /\ IsCommentRead(b) /\ Len(out[b]) = 1 /\ Len(got[b]) = 0
        /\ CallsCarry(a, hdr[a])
        /\ CallsCarry(b, hdr[b])
        /\ TargetOf(out[a][2]) # TargetOf(out[b][1])

(***************************************************************************)
(* The arithmetic of the page boundaries.                                  *)
(***************************************************************************)
\* C18: for every page and count the parser accepts and every upstream
\* collection, the listing handlers reach the slice step only with
\* 0 <= startIndex < endIndex <= total_items, the slice is never out of
\* bounds, and total_pages is at least 1 on the non-empty path.
C18_SliceAlwaysInBounds ==
    \A r \in Slots :
        (ListingAnswered(r) /\ loc[r].sliced) =>
            /\ Leq(Zero, loc[r].startIndex)
            /\ Less(loc[r].startIndex, loc[r].endIndex)
            /\ Leq(loc[r].endIndex, loc[r].totalItems)
            /\ resp[r].kind = "envelope"
            /\ Less(Zero, resp[r].total_pages)

====
